---------------------------- MODULE Spec2Model ----------------------------
(***************************************************************************)
(* Model of the compiler front end of algo-parser:                         *)
(*   lexer    (src/src/lexer/mod.rs)    lines  -> tokens                   *)
(*   parser   (src/src/parser/mod.rs)   tokens -> Ast::Global              *)
(*   analyzer (src/src/compiler/mod.rs) Ast    -> flattened functions,     *)
(*                                                extern signatures        *)
(* Text is a sequence of one-character strings (Chars("if") is             *)
(* <<"i","f">>), so that slicing, prefix matching and name concatenation   *)
(* behave as they do on Rust strings.  A Result is a record with           *)
(* status "ok" | "err" | "panic"; "panic" is a Rust panic (unwrap on None, *)
(* todo!(), arithmetic overflow in a build with overflow checks).          *)
(***************************************************************************)
EXTENDS Integers, Sequences, FiniteSets, TLC

VARIABLES
    overflow_checks,  \* build profile: TRUE = debug (overflow panics), FALSE = release (wraps)
    lines,            \* tokenize: the input lines
    line_index,       \* tokenize: index of the current line (1-based)
    char_index,       \* tokenize: index of the current character in the line (1-based)
    context,          \* tokenize: TokenizerContext
    current_token,    \* tokenize: characters of the pending token
    tokens,           \* tokenize: result so far; then the parser's input
    token_pos,        \* load_ast: position of the peekable iterator (1-based)
    children,         \* load_ast: statements built so far; then the analyzer's input
    child_index,      \* flatten_tree (global call): index of the next statement
    ctx,              \* flatten_tree (global call): scope, main function, functions, externs
    phase,            \* "lex" | "parse" | "analyze" | "done"
    outcome           \* [stage, status, msg]: how the pipeline ended ("running" before)

vars == <<overflow_checks, lines, line_index, char_index, context, current_token,
          tokens, token_pos, children, child_index, ctx, phase, outcome>>

(***************************************************************************)
(* Text helpers                                                            *)
(***************************************************************************)
Chars(s) == [i \in 1..Len(s) |-> SubSeq(s, i, i)]

Last(s) == s[Len(s)]

Front(s) == SubSeq(s, 1, Len(s) - 1)

RECURSIVE Reverse(_)
Reverse(s) == IF s = <<>> THEN <<>> ELSE Append(Reverse(Tail(s)), Head(s))

InSeq(x, s) == \E i \in 1..Len(s) : s[i] = x

\* `let name = value;` of the source: F applied to the value of one evaluation.
With(value, F(_)) == F(value)

Ok(v) == [status |-> "ok", val |-> v]

Err(m) == [status |-> "err", msg |-> m]

Panic(m) == [status |-> "panic", msg |-> m]

(***************************************************************************)
(* lexer/contants.rs                                                       *)
(***************************************************************************)
OPERATOR_STRING == Chars("+-%/-*<>=!")

SEPARATORS == Chars("()[]:,")

START_NAME_CHARACTERS == Chars("abcdefghijklmnopqrstuvwxyzABCDEFGHIJKLMNOPQRSTUVWXYZ_")

NUMERIC_CHARACTERS == Chars(".0123456789")

TYPES == <<Chars("int"), Chars("float"), Chars("string"), Chars("char")>>

BINARY_OPERATORS == <<Chars(">"), Chars("<"), Chars(">="), Chars("<="), Chars("+"),
                      Chars("-"), Chars("<-"), Chars("/"), Chars("%"), Chars("*"),
                      Chars("=="), Chars("!="), Chars("!")>>

UNARY_OPERATORS == <<Chars("-"), Chars("+")>>

KEYWORDS == <<Chars("end"), Chars("return"), Chars("function"), Chars("while"),
              Chars("for"), Chars("if"), Chars("else")>>

(***************************************************************************)
(* lexer/types.rs: TokenType.  Every token is a record                     *)
(* [type, text, num, scale, int]; Int(n) has int = the i64 n, Bool(b) has  *)
(* num = 1 or 0, Float(x) has x = num / 10^scale, the others carry their   *)
(* text.                                                                   *)
(***************************************************************************)
Tok(type, text) == [type |-> type, text |-> text, num |-> 0, scale |-> 0, int |-> <<>>]

IntTok(n) == [type |-> "Int", text |-> <<>>, num |-> 0, scale |-> 0, int |-> n]

BoolTok(b) ==
    [type |-> "Bool", text |-> <<>>, num |-> IF b THEN 1 ELSE 0, scale |-> 0, int |-> <<>>]

FloatTok(n, s) == [type |-> "Float", text |-> <<>>, num |-> n, scale |-> s, int |-> <<>>]

EndLine == Tok("EndLine", <<>>)

KeywordTok(s) == Tok("Keyword", Chars(s))

(***************************************************************************)
(* lexer/utils.rs                                                          *)
(***************************************************************************)
IsDigit(c) == c \in {"0", "1", "2", "3", "4", "5", "6", "7", "8", "9"}

to_digit(c) == CHOOSE d \in 0..9 : Chars("0123456789")[d + 1] = c

\* An i64 is kept as its four 16-bit limbs, least significant first, in two's
\* complement: the value is v[1] + 2^16 v[2] + 2^32 v[3] + 2^48 v[4] modulo 2^64,
\* and it is negative when v[4] >= 2^15.  I64(n) is the i64 of a small n >= 0.
I64(n) == <<n % 65536, n \div 65536, 0, 0>>

\* result * 10 + val on an i64 result >= 0: the wrapped value, and whether the
\* exact value leaves the i64 range (it is 2^63 or more).
mul10_add(result, val) ==
    LET t1 == result[1] * 10 + val
        t2 == result[2] * 10 + (t1 \div 65536)
        t3 == result[3] * 10 + (t2 \div 65536)
        t4 == result[4] * 10 + (t3 \div 65536)
    IN  [value    |-> <<t1 % 65536, t2 % 65536, t3 % 65536, t4 % 65536>>,
         overflow |-> t4 >= 32768]

\* to_int: None (<<>>) on the first non-digit, else Some(result), result being
\* result * 10 + digit over the characters.  The arithmetic is i64 arithmetic: past
\* i64::MAX it panics in a build with overflow checks and wraps in one without.
RECURSIVE to_int_loop(_, _, _)
to_int_loop(cs, result, checks) ==
    IF cs = <<>> THEN Ok(<<result>>)
    ELSE IF IsDigit(Head(cs))
         THEN With(mul10_add(result, to_digit(Head(cs))), LAMBDA s :
                  IF checks /\ result[4] < 32768 /\ s.overflow
                  THEN Panic("attempt to multiply or add with overflow")
                  ELSE to_int_loop(Tail(cs), s.value, checks))
    ELSE Ok(<<>>)

to_int(token_value, checks) == to_int_loop(token_value, I64(0), checks)

\* The digits of a part of a float literal, accumulated in f64 (no i64 is involved)
RECURSIVE digits_value(_)
digits_value(cs) ==
    IF cs = <<>> THEN 0 ELSE digits_value(Front(cs)) * 10 + to_digit(Last(cs))

RECURSIVE Pow10(_)
Pow10(n) == IF n = 0 THEN 1 ELSE 10 * Pow10(n - 1)

RECURSIVE NormFloat(_, _)
NormFloat(n, s) == IF s > 0 /\ n % 10 = 0 THEN NormFloat(n \div 10, s - 1) ELSE <<n, s>>

\* to_float: the digits before the first '.' accumulate into upper_part; the rest,
\* walked from the last character backward, accumulates lower_part/10 + digit and is
\* divided by 10 once more: the value is upper + 0.d1d2..dn, kept here as the exact
\* decimal <<num, scale>> (f64 rounding is not modelled).
FirstDot(cs) == IF InSeq(".", cs) THEN CHOOSE i \in 1..Len(cs) :
                                        cs[i] = "." /\ \A j \in 1..(i - 1) : cs[j] # "."
                ELSE Len(cs) + 1

to_float(token_value) ==
    LET d     == FirstDot(token_value)
        upper == SubSeq(token_value, 1, d - 1)
        lower == SubSeq(token_value, d + 1, Len(token_value))
    IN  IF \E i \in 1..Len(upper) : ~IsDigit(upper[i]) THEN <<>>
        ELSE IF \E i \in 1..Len(lower) : ~IsDigit(lower[i]) THEN <<>>
        ELSE <<NormFloat(digits_value(upper) * Pow10(Len(lower)) + digits_value(lower), Len(lower))>>

(***************************************************************************)
(* lexer/mod.rs: token builders                                            *)
(***************************************************************************)
\* lex_operators: the while loop.  op_string is always the prefix of length
\* op_string_index of token_value[token_index..]; result holds the previous token
\* (when there is one) followed by the operators found so far.
\* One more iteration of the loop
Iterated(r) == [r EXCEPT !.iterations = @ + 1]

RECURSIVE lex_operators_loop(_, _, _, _)
lex_operators_loop(token_value, token_index, op_string_index, result) ==
    IF op_string_index = 0
    THEN [token_index |-> token_index, result |-> result, iterations |-> 0]
    ELSE
      LET op_string == SubSeq(token_value, token_index + 1, token_index + op_string_index)
          rest_len  == Len(token_value) - (token_index + op_string_index)
      IN  Iterated(
          IF result # <<>>
          THEN IF /\ Last(result).type \in {"BinaryOperator", "UnaryOperator", "Keyword", "Comma"}
                  /\ InSeq(op_string, UNARY_OPERATORS)
               THEN lex_operators_loop(token_value, token_index + op_string_index, rest_len,
                                       Append(result, Tok("UnaryOperator", op_string)))
               ELSE IF InSeq(op_string, BINARY_OPERATORS)
               THEN lex_operators_loop(token_value, token_index + op_string_index, rest_len,
                                       Append(result, Tok("BinaryOperator", op_string)))
               ELSE lex_operators_loop(token_value, token_index, op_string_index - 1, result)
          ELSE IF InSeq(op_string, UNARY_OPERATORS)
               THEN lex_operators_loop(token_value, token_index + op_string_index, rest_len,
                                       Append(result, Tok("UnaryOperator", op_string)))
               ELSE lex_operators_loop(token_value, token_index, op_string_index - 1, result))

lex_operators(token_value, last_token) ==
    LET r == lex_operators_loop(token_value, 0, Len(token_value), last_token)
    IN  IF Len(token_value) = r.token_index
        THEN Ok(IF last_token # <<>> THEN Tail(r.result) ELSE r.result)
        ELSE Err("invalid operator")

lex_name_token(token_value, result) ==
    IF InSeq(token_value, TYPES) THEN Append(result, Tok("TypeDef", token_value))
    ELSE IF InSeq(token_value, KEYWORDS) THEN Append(result, Tok("Keyword", token_value))
    ELSE IF token_value = Chars("true") THEN Append(result, BoolTok(TRUE))
    ELSE IF token_value = Chars("false") THEN Append(result, BoolTok(FALSE))
    ELSE IF result # <<>> /\ Last(result).type = "Colon"
         THEN Append(result, Tok("TypeDef", token_value))
    ELSE Append(result, Tok("Variable", token_value))

lex_value_token(token_value, result, checks) ==
    With(to_int(token_value, checks), LAMBDA val :
        IF val.status # "ok" THEN val
        ELSE IF val.val # <<>> THEN Ok(Append(result, IntTok(val.val[1])))
        ELSE IF to_float(token_value) # <<>>
             THEN Ok(Append(result, FloatTok(to_float(token_value)[1][1],
                                             to_float(token_value)[1][2])))
        ELSE Err("invalid number"))

\* lex_closing_brackets: with fewer than two tokens emitted nothing is pushed.
lex_closing_brackets(old_tokens, result) ==
    LET tokens_len == Len(result)
    IN  IF tokens_len >= 2
        THEN IF old_tokens[tokens_len].type = "OpeningBracket"
             THEN IF old_tokens[tokens_len - 1].type = "TypeDef"
                  THEN Append(Front(Front(result)),
                              Tok("ArrayTypeDef", old_tokens[tokens_len - 1].text))
                  ELSE Append(result, Tok("ClosingBracket", <<>>))
             ELSE Append(result, Tok("ClosingBracket", <<>>))
        ELSE result

\* lex_opening_parenthesis: old_tokens.len() - 2 is a usize subtraction; with one
\* token emitted it overflows: a panic with overflow checks, and otherwise an index
\* no vector has, so that get() is None and the Variable becomes a FunctionCall.
lex_opening_parenthesis(old_tokens, result, checks) ==
    LET paren == Tok("OpeningParenthesis", <<>>)
        call  == Append(Front(result), Tok("FunctionCall", Last(old_tokens).text))
    IN  IF old_tokens # <<>> /\ Last(old_tokens).type = "Variable"
        THEN IF Len(old_tokens) < 2
             THEN IF checks THEN Panic("attempt to subtract with overflow")
                  ELSE Ok(Append(call, paren))
             ELSE LET before_last_token == old_tokens[Len(old_tokens) - 1]
                  IN  IF /\ before_last_token.type = "Keyword"
                         /\ before_last_token.text = Chars("function")
                      THEN Ok(Append(result, paren))
                      ELSE Ok(Append(call, paren))
        ELSE Ok(Append(result, paren))

lex_separator(token_value, old_tokens, result, checks) ==
    IF token_value = Chars("(") THEN lex_opening_parenthesis(old_tokens, result, checks)
    ELSE IF token_value = Chars(")") THEN Ok(Append(result, Tok("ClosingParenthesis", <<>>)))
    ELSE IF token_value = Chars("[") THEN Ok(Append(result, Tok("OpeningBracket", <<>>)))
    ELSE IF token_value = Chars("]") THEN Ok(lex_closing_brackets(old_tokens, result))
    ELSE IF token_value = Chars(":") THEN Ok(Append(result, Tok("Colon", <<>>)))
    ELSE IF token_value = Chars(",") THEN Ok(Append(result, Tok("Comma", <<>>)))
    ELSE Err("invalid separator")

create_token(token_value, ctxt, old_tokens, checks) ==
    IF ctxt = "Name" THEN Ok(lex_name_token(token_value, old_tokens))
    ELSE IF ctxt = "Operator"
         THEN LET r == lex_operators(token_value,
                                     IF old_tokens = <<>> THEN <<>> ELSE <<Last(old_tokens)>>)
              IN  IF r.status = "ok" THEN Ok(old_tokens \o r.val) ELSE r
    ELSE IF ctxt = "Value" THEN lex_value_token(token_value, old_tokens, checks)
    ELSE IF ctxt = "QuotedValue" THEN Ok(Append(old_tokens, Tok("String", token_value)))
    ELSE IF ctxt = "Separator" THEN lex_separator(token_value, old_tokens, old_tokens, checks)
    ELSE Err("invalid token in context None")

(***************************************************************************)
(* lexer/mod.rs: tokenize, one iteration of the per-character loop         *)
(***************************************************************************)
CharContext(c) ==
    IF InSeq(c, OPERATOR_STRING) THEN "Operator"
    ELSE IF InSeq(c, SEPARATORS) THEN "Separator"
    ELSE IF InSeq(c, START_NAME_CHARACTERS) THEN "Name"
    ELSE IF InSeq(c, NUMERIC_CHARACTERS) THEN "Value"
    ELSE IF c = "\"" THEN "QuotedValue"
    ELSE "Invalid"

\* push_context is Some(context) for this character
PushContext(c, ctxt) ==
    IF c = " " /\ ctxt # "QuotedValue" THEN ctxt # "None"
    ELSE \/ ctxt = "Name" /\ ~InSeq(c, START_NAME_CHARACTERS) /\ ~InSeq(c, NUMERIC_CHARACTERS)
         \/ ctxt = "Separator"
         \/ ctxt = "Operator" /\ ~InSeq(c, OPERATOR_STRING)
         \/ ctxt = "Value" /\ ~InSeq(c, NUMERIC_CHARACTERS)
         \/ ctxt = "QuotedValue" /\ c = "\""

\* A loop that leaves a separating space where it is
NextChar_unless_space(c, ctxt) ==
    /\ ~(c = " " /\ ctxt # "QuotedValue")
    /\ ~(\/ ctxt = "Name" /\ ~InSeq(c, START_NAME_CHARACTERS) /\ ~InSeq(c, NUMERIC_CHARACTERS)
         \/ ctxt = "Separator"
         \/ ctxt = "Operator" /\ ~InSeq(c, OPERATOR_STRING)
         \/ ctxt = "Value" /\ ~InSeq(c, NUMERIC_CHARACTERS))

\* next_char: the character is consumed by this iteration
NextChar(c, ctxt) ==
    IF c = " " /\ ctxt # "QuotedValue" THEN TRUE
    ELSE ~(\/ ctxt = "Name" /\ ~InSeq(c, START_NAME_CHARACTERS) /\ ~InSeq(c, NUMERIC_CHARACTERS)
           \/ ctxt = "Separator"
           \/ ctxt = "Operator" /\ ~InSeq(c, OPERATOR_STRING)
           \/ ctxt = "Value" /\ ~InSeq(c, NUMERIC_CHARACTERS))

\* should_push: the character joins the pending token
ShouldPush(c, ctxt) ==
    IF c = " " /\ ctxt # "QuotedValue" THEN FALSE
    ELSE IF ctxt = "None" THEN CharContext(c) # "QuotedValue"
    ELSE ~(ctxt = "QuotedValue" /\ c = "\"")

\* tokenize, lines 208-289: one iteration of the loop over the characters of a line,
\* on character c: the new context, pending token and result, and whether the
\* character was consumed (next_char).
lex_iteration(c, ctxt, pending_token, result, checks) ==
    LET entered == IF ctxt = "None" /\ c # " " THEN CharContext(c) ELSE ctxt
        push    == PushContext(c, ctxt)
        made    == IF push THEN create_token(pending_token, ctxt, result, checks) ELSE Ok(result)
        pending == IF push THEN <<>> ELSE pending_token
    IN  IF entered = "Invalid" THEN Err("invalid character")
        ELSE IF made.status # "ok" THEN made
        ELSE Ok([context       |-> IF push THEN "None" ELSE entered,
                 current_token |-> IF NextChar(c, ctxt) /\ ShouldPush(c, ctxt)
                                   THEN Append(pending, c) ELSE pending,
                 result        |-> made.val,
                 next_char     |-> NextChar(c, ctxt)])

\* The end of a line that closes the pending token and pushes nothing else
lex_end_of_line_unmarked(ctxt, pending_token, result, checks) ==
    IF ctxt = "None" THEN Ok(result) ELSE create_token(pending_token, ctxt, result, checks)

\* tokenize, lines 291-303: at the end of a line the pending token is closed and
\* EndLine is pushed.
lex_end_of_line(ctxt, pending_token, result, checks) ==
    LET made == IF ctxt = "None" THEN Ok(result)
                ELSE create_token(pending_token, ctxt, result, checks)
    IN  IF made.status # "ok" THEN made ELSE Ok(Append(made.val, EndLine))

\* The lexer's state between two iterations.
LexState(ctxt, pending_token, result) ==
    [context |-> ctxt, current_token |-> pending_token, result |-> result]

\* tokenize as a function: the iterations over the characters of one line ...
RECURSIVE tokenize_line(_, _, _, _)
tokenize_line(line, ci, st, checks) ==
    IF ci > Len(line)
    THEN LET e == lex_end_of_line(st.context, st.current_token, st.result, checks)
         IN  IF e.status # "ok" THEN e ELSE Ok(LexState("None", <<>>, e.val))
    ELSE LET r == lex_iteration(line[ci], st.context, st.current_token, st.result, checks)
         IN  IF r.status # "ok" THEN r
             ELSE tokenize_line(line, IF r.val.next_char THEN ci + 1 ELSE ci,
                                LexState(r.val.context, r.val.current_token, r.val.result),
                                checks)

\* ... and over the lines; the result carries over from line to line.
RECURSIVE tokenize_lines(_, _, _)
tokenize_lines(ls, n, checks) ==
    IF n = 0 THEN Ok(LexState("None", <<>>, <<>>))
    ELSE LET before == tokenize_lines(ls, n - 1, checks)
         IN  IF before.status # "ok" THEN before
             ELSE tokenize_line(ls[n], 1, before.val, checks)

tokenize(ls, checks) ==
    LET r == tokenize_lines(ls, Len(ls), checks)
    IN  IF r.status # "ok" THEN r ELSE Ok(r.val.result)

(***************************************************************************)
(* parser/types.rs: Ast.  A node is a record with a tag; Option<T> is the  *)
(* empty sequence (None) or a one-element sequence (Some).                 *)
(***************************************************************************)
IntAst(n) == [tag |-> "Int", int |-> n]

FloatAst(n, s) == [tag |-> "Float", num |-> n, scale |-> s]

StrAst(t) == [tag |-> "Str", text |-> t]

BoolAst(n) == [tag |-> "Bool", num |-> n]

Variable(name, typename) == [name |-> name, typename |-> typename]

ParserType(name, is_array) == [name |-> name, is_array |-> is_array]

VariableAst(var) == [tag |-> "Variable", var |-> var]

BinaryAst(tag, left, right) == [tag |-> tag, left |-> left, right |-> right]

UnaryAst(tag, child) == [tag |-> tag, child |-> child]

Assignement(variable, expression) ==
    [tag |-> "Assignement", variable |-> variable, expression |-> expression]

FunctionCall(name, kids) == [tag |-> "FunctionCall", name |-> name, children |-> kids]

ArrayValue(kids) == [tag |-> "ArrayValue", children |-> kids]

ArrayAccess(variable, offset) == [tag |-> "ArrayAccess", variable |-> variable, offset |-> offset]

Condition(condition, valid_branch, invalid_branch) ==
    [tag |-> "Condition", condition |-> condition, valid_branch |-> valid_branch,
     invalid_branch |-> invalid_branch]

WhileLoop(condition, kids) == [tag |-> "WhileLoop", condition |-> condition, children |-> kids]

FunctionDeclarationAst(name, kids, parameters, return_type) ==
    [tag |-> "FunctionDeclaration", name |-> name, children |-> kids,
     parameters |-> parameters, return_type |-> return_type]

FunctionHeader(name, parameters, return_type) ==
    [tag |-> "FunctionHeader", name |-> name, parameters |-> parameters,
     return_type |-> return_type]

ReturnStatement(value) == [tag |-> "ReturnStatement", value |-> value]

\* A parse result: the node (or stacks) built and the iterator's position after it.
At(v, pos) == [status |-> "ok", val |-> v, pos |-> pos]

(***************************************************************************)
(* parser/utils.rs                                                         *)
(***************************************************************************)
PrecedencyAssign == 0

PrecedencyAdditive == 1

PrecedencyModulo == 2

PrecedencyMultiplicative == 3

PrecedencyUnary == 4

PrecedencyOther == -1

\* A table in which every arithmetic operator has the precedence of `+`
flat_operator_precedency(operator) ==
    IF operator.type = "UnaryOperator" THEN PrecedencyUnary
    ELSE IF operator.type = "BinaryOperator"
         THEN IF operator.text \in {Chars("+"), Chars("-"), Chars("*"), Chars("/"), Chars("%")}
              THEN PrecedencyAdditive
              ELSE IF operator.text = Chars("<-") THEN PrecedencyAssign
              ELSE PrecedencyOther
    ELSE PrecedencyOther

get_operator_precedency(operator) ==
    IF operator.type = "UnaryOperator" THEN PrecedencyUnary
    ELSE IF operator.type = "BinaryOperator"
         THEN IF operator.text \in {Chars("+"), Chars("-")} THEN PrecedencyAdditive
              ELSE IF operator.text \in {Chars("*"), Chars("/")} THEN PrecedencyMultiplicative
              ELSE IF operator.text = Chars("%") THEN PrecedencyModulo
              ELSE IF operator.text = Chars("<-") THEN PrecedencyAssign
              ELSE PrecedencyOther
    ELSE PrecedencyOther

(***************************************************************************)
(* parser/mod.rs: reductions of the shunting-yard stacks                   *)
(***************************************************************************)
BinaryTag(operator_str) ==
    CASE operator_str = Chars("+")  -> "Addition"
      [] operator_str = Chars("-")  -> "Substraction"
      [] operator_str = Chars("*")  -> "Multiplication"
      [] operator_str = Chars("/")  -> "Division"
      [] operator_str = Chars("%")  -> "Modulo"
      [] operator_str = Chars("==") -> "EqualTo"
      [] operator_str = Chars("!=") -> "NotEqualTo"
      [] operator_str = Chars(">")  -> "GreaterThan"
      [] operator_str = Chars("<")  -> "LowerThan"
      [] operator_str = Chars("<=") -> "LowerOrEqual"
      [] operator_str = Chars(">=") -> "GreaterOrEqual"
      [] OTHER -> "none"

\* The right operand is popped first, then the left one.
create_binary_operator_ast(operator_str, output_stack) ==
    IF Len(output_stack) < 2 THEN Err("invalid expression in create_binary_operator_ast")
    ELSE LET right == output_stack[Len(output_stack)]
             left  == output_stack[Len(output_stack) - 1]
             rest  == SubSeq(output_stack, 1, Len(output_stack) - 2)
         IN  IF operator_str = Chars("<-")
             THEN IF left.tag \in {"Variable", "ArrayAccess"}
                  THEN Ok(Append(rest, Assignement(left, right)))
                  ELSE Err("parser: can only assign value to variable")
             ELSE IF BinaryTag(operator_str) = "none"
                  THEN Err("parser: missing implementation for operator")
                  ELSE Ok(Append(rest, BinaryAst(BinaryTag(operator_str), left, right)))

\* Pops nodes until a FunctionCall node is popped; the nodes popped before it,
\* reversed, become the children of a new FunctionCall named function_name.
RECURSIVE create_function_ast_loop(_, _, _)
create_function_ast_loop(function_name, output_stack, kids) ==
    IF output_stack = <<>> THEN Err("missing function call.")
    ELSE IF Last(output_stack).tag = "FunctionCall"
         THEN Ok(Append(Front(output_stack), FunctionCall(function_name, Reverse(kids))))
         ELSE create_function_ast_loop(function_name, Front(output_stack),
                                       Append(kids, Last(output_stack)))

create_function_ast(function_name, output_stack) ==
    create_function_ast_loop(function_name, output_stack, <<>>)

create_unary_operator_ast(operator_str, output_stack) ==
    IF output_stack = <<>> THEN Err("invalid expression in create_unary_operator_ast")
    ELSE Ok(Append(Front(output_stack),
                   UnaryAst(IF operator_str = Chars("+") THEN "UnaryPlus" ELSE "UnaryMinus",
                            Last(output_stack))))

Stacks(out, ops) == [out |-> out, ops |-> ops]

\* A reduction that leaves unary operators on the stack until the end of the expression
RECURSIVE reduce_binary_operators_only(_, _, _)
reduce_binary_operators_only(precedency, out, ops) ==
    IF ops = <<>> THEN Ok(Stacks(out, ops))
    ELSE LET operator == Last(ops)
         IN  IF /\ operator.type = "BinaryOperator"
                /\ get_operator_precedency(operator) >= precedency
             THEN With(create_binary_operator_ast(operator.text, out), LAMBDA r :
                       IF r.status # "ok" THEN r
                       ELSE reduce_binary_operators_only(precedency, r.val, Front(ops)))
             ELSE Ok(Stacks(out, ops))

\* build_expression_ast, lines 472-497: before an operator of precedence precedency
\* is pushed, binary operators of precedence >= it and unary operators of
\* precedence > it are popped and applied.
RECURSIVE reduce_before_operator(_, _, _)
reduce_before_operator(precedency, out, ops) ==
    IF ops = <<>> THEN Ok(Stacks(out, ops))
    ELSE LET operator == Last(ops)
         IN  IF /\ operator.type = "BinaryOperator"
                /\ get_operator_precedency(operator) >= precedency
             THEN With(create_binary_operator_ast(operator.text, out), LAMBDA r :
                       IF r.status # "ok" THEN r
                       ELSE reduce_before_operator(precedency, r.val, Front(ops)))
             ELSE IF /\ operator.type = "UnaryOperator"
                     /\ get_operator_precedency(operator) > precedency
             THEN With(create_unary_operator_ast(operator.text, out), LAMBDA r :
                       IF r.status # "ok" THEN r
                       ELSE reduce_before_operator(precedency, r.val, Front(ops)))
             ELSE Ok(Stacks(out, ops))

\* build_expression_ast, lines 502-524: on a comma the operators above the nearest
\* non-operator entry are applied; that entry stays.
RECURSIVE reduce_before_comma(_, _)
reduce_before_comma(out, ops) ==
    IF ops = <<>> THEN Err("missing left parenthesis")
    ELSE LET operator == Last(ops)
         IN  IF operator.type \in {"BinaryOperator", "UnaryOperator"}
             THEN With(IF operator.type = "BinaryOperator"
                       THEN create_binary_operator_ast(operator.text, out)
                       ELSE create_unary_operator_ast(operator.text, out), LAMBDA r :
                       IF r.status # "ok" THEN r ELSE reduce_before_comma(r.val, Front(ops)))
             ELSE Ok(Stacks(out, ops))

\* build_expression_ast, lines 532-553: on ')' the operators are popped and applied
\* down to and including the first entry that is no operator.
RECURSIVE reduce_before_closing(_, _)
reduce_before_closing(out, ops) ==
    IF ops = <<>> THEN Err("invalid expression parsing ')' in build_expression_ast")
    ELSE LET operator == Last(ops)
         IN  IF operator.type \in {"BinaryOperator", "UnaryOperator"}
             THEN With(IF operator.type = "BinaryOperator"
                       THEN create_binary_operator_ast(operator.text, out)
                       ELSE create_unary_operator_ast(operator.text, out), LAMBDA r :
                       IF r.status # "ok" THEN r ELSE reduce_before_closing(r.val, Front(ops)))
             ELSE Ok(Stacks(out, Front(ops)))

\* build_expression_ast, lines 611-630: at the end the remaining operators are applied.
RECURSIVE reduce_remaining(_, _)
reduce_remaining(out, ops) ==
    IF ops = <<>> THEN Ok(out)
    ELSE LET operator == Last(ops)
         IN  With(IF operator.type = "UnaryOperator"
                  THEN create_unary_operator_ast(operator.text, out)
                  ELSE IF operator.type = "BinaryOperator"
                  THEN create_binary_operator_ast(operator.text, out)
                  ELSE IF operator.type = "FunctionCall"
                  THEN create_function_ast(operator.text, out)
                  ELSE Err("invalid token in build_expression_ast"), LAMBDA r :
                  IF r.status # "ok" THEN r ELSE reduce_remaining(r.val, Front(ops)))

parse_variable(toks, pos, require_type) ==
    IF pos > Len(toks) THEN Err("missing token for variable")
    ELSE IF toks[pos].type # "Variable" THEN Err("parser: invalid token for variable declaration.")
    ELSE IF pos + 1 > Len(toks) THEN At(Variable(toks[pos].text, <<>>), pos + 1)
    ELSE IF toks[pos + 1].type # "Colon"
         THEN IF ~require_type THEN At(Variable(toks[pos].text, <<>>), pos + 1)
              ELSE Err("missing typedef for variable")
    ELSE IF pos + 2 > Len(toks) THEN Err("missing type declaration for variable")
    ELSE IF toks[pos + 2].type = "TypeDef"
         THEN At(Variable(toks[pos].text, <<ParserType(toks[pos + 2].text, FALSE)>>), pos + 3)
    ELSE IF toks[pos + 2].type = "ArrayTypeDef"
         THEN At(Variable(toks[pos].text, <<ParserType(toks[pos + 2].text, TRUE)>>), pos + 3)
    ELSE Err("parser: invalid type token for variable")

(***************************************************************************)
(* parser/mod.rs: expressions                                              *)
(***************************************************************************)
\* A bracket group that is never read as an index
push_bracket_group_as_value(array_token, out) == Append(out, array_token)

\* build_expression_ast, lines 575-605: what a parsed bracket group leaves on the
\* output stack.
push_bracket_group(array_token, out) ==
    IF Len(array_token.children) # 1 THEN Append(out, array_token)
    ELSE IF array_token.children[1].tag # "Int" THEN Append(out, array_token)
    ELSE IF out = <<>> THEN Append(out, array_token)
    ELSE IF Last(out).tag = "Variable" /\ Last(out).var.typename = <<>>
         THEN Append(Front(out), ArrayAccess(Last(out).var.name, array_token.children[1].int))
    ELSE Append(out, array_token)

RECURSIVE build_expression_ast(_, _)
RECURSIVE expression_loop(_, _, _, _)
RECURSIVE array_value_loop(_, _, _, _)

\* build_array_value_ast: the tokens up to each comma or ']' are parsed as an
\* expression of their own, closed by an EndLine.
array_value_loop(toks, pos, buffer, result) ==
    IF pos > Len(toks) THEN Err("parser: unexpected end of document in build_array_value_ast")
    ELSE LET token == toks[pos]
         IN  IF token.type = "Comma"
             THEN With(build_expression_ast(Append(buffer, EndLine), 1), LAMBDA child :
                       IF child.status # "ok" THEN child
                       ELSE array_value_loop(toks, pos + 1, <<>>, Append(result, child.val)))
             ELSE IF token.type = "ClosingBracket"
             THEN With(build_expression_ast(Append(buffer, EndLine), 1), LAMBDA child :
                       IF child.status # "ok" THEN child
                       ELSE At(ArrayValue(Append(result, child.val)), pos + 1))
             ELSE IF token.type = "EndLine"
             THEN Err("parser: unexpected token while parsing array value.")
             ELSE array_value_loop(toks, pos + 1, Append(buffer, token), result)

build_array_value_ast(toks, pos) == array_value_loop(toks, pos, <<>>, <<>>)

\* build_expression_ast, lines 427-609: the loop over the tokens of one expression.
expression_loop(toks, pos, out, ops) ==
    IF pos > Len(toks) THEN Err("missing token")
    ELSE LET token == toks[pos]
         IN  CASE token.type = "Bool" ->
                    expression_loop(toks, pos + 1, Append(out, BoolAst(token.num)), ops)
               [] token.type = "Int" ->
                    expression_loop(toks, pos + 1, Append(out, IntAst(token.int)), ops)
               [] token.type = "Float" ->
                    expression_loop(toks, pos + 1, Append(out, FloatAst(token.num, token.scale)), ops)
               [] token.type = "String" ->
                    expression_loop(toks, pos + 1, Append(out, StrAst(token.text)), ops)
               [] token.type = "Variable" /\ ops = <<>> ->
                    With(parse_variable(toks, pos, FALSE), LAMBDA v :
                         IF v.status # "ok" THEN v
                         ELSE expression_loop(toks, v.pos, Append(out, VariableAst(v.val)), ops))
               [] token.type = "Variable" /\ ops # <<>> ->
                    expression_loop(toks, pos + 1,
                                    Append(out, VariableAst(Variable(token.text, <<>>))), ops)
               [] token.type = "FunctionCall" ->
                    expression_loop(toks, pos + 1, Append(out, FunctionCall(token.text, <<>>)),
                                    Append(ops, token))
               [] token.type \in {"UnaryOperator", "BinaryOperator"} ->
                    With(reduce_before_operator(get_operator_precedency(token), out, ops),
                         LAMBDA r :
                         IF r.status # "ok" THEN r
                         ELSE expression_loop(toks, pos + 1, r.val.out, Append(r.val.ops, token)))
               [] token.type = "Comma" ->
                    With(reduce_before_comma(out, ops), LAMBDA r :
                         IF r.status # "ok" THEN r
                         ELSE expression_loop(toks, pos + 1, r.val.out, r.val.ops))
               [] token.type = "OpeningParenthesis" ->
                    expression_loop(toks, pos + 1, out, Append(ops, token))
               [] token.type = "ClosingParenthesis" ->
                    With(reduce_before_closing(out, ops), LAMBDA r :
                         IF r.status # "ok" THEN r
                         ELSE IF r.val.ops # <<>> /\ Last(r.val.ops).type = "FunctionCall"
                         THEN With(create_function_ast(Last(r.val.ops).text, r.val.out),
                                   LAMBDA f :
                                   IF f.status # "ok" THEN f
                                   ELSE expression_loop(toks, pos + 1, f.val, Front(r.val.ops)))
                         ELSE expression_loop(toks, pos + 1, r.val.out, r.val.ops))
               [] token.type = "EndLine" -> At(Stacks(out, ops), pos + 1)
               [] token.type = "OpeningBracket" ->
                    With(build_array_value_ast(toks, pos + 1), LAMBDA a :
                         IF a.status # "ok" THEN a
                         ELSE expression_loop(toks, a.pos, push_bracket_group(a.val, out), ops))
               [] OTHER -> Err("invalid token")

build_expression_ast(toks, pos) ==
    With(expression_loop(toks, pos, <<>>, <<>>), LAMBDA l :
         IF l.status # "ok" THEN l
         ELSE With(reduce_remaining(l.val.out, l.val.ops), LAMBDA r :
                   IF r.status # "ok" THEN r
                   ELSE IF Len(r.val) # 1 THEN Err("invalid expression, expected length of 1")
                   ELSE At(r.val[1], l.pos)))

(***************************************************************************)
(* parser/mod.rs: statements                                               *)
(***************************************************************************)
IsKeyword(token, word) == token.type = "Keyword" /\ token.text = Chars(word)

\* parse_function_header, lines 210-226: the parameters up to ')'
RECURSIVE header_params_loop(_, _, _)
header_params_loop(toks, pos, params) ==
    IF pos > Len(toks) THEN At(params, pos)
    ELSE IF toks[pos].type = "ClosingParenthesis" THEN At(params, pos + 1)
    ELSE IF toks[pos].type = "Comma" THEN header_params_loop(toks, pos + 1, params)
    ELSE With(parse_variable(toks, pos, TRUE), LAMBDA v :
              IF v.status # "ok" THEN v
              ELSE header_params_loop(toks, v.pos, Append(params, v.val)))

Header(name, params, return_type) ==
    [name |-> name, parameters |-> params, return_type |-> return_type]

parse_function_header(toks, pos) ==
    IF pos > Len(toks) THEN Err("missing name for function")
    ELSE IF toks[pos].type # "Variable" THEN Err("invalid token for function name")
    ELSE IF pos + 1 > Len(toks) THEN Err("parser: missing '(' after function declaration")
    ELSE IF toks[pos + 1].type # "OpeningParenthesis" THEN Err("parser: expected '('")
    ELSE LET name == toks[pos].text
         IN  With(header_params_loop(toks, pos + 2, <<>>), LAMBDA p :
             IF p.status # "ok" THEN p
             ELSE IF p.pos > Len(toks) THEN Err("invalid function declaration")
             ELSE IF toks[p.pos].type = "EndLine" THEN At(Header(name, p.val, <<>>), p.pos)
             ELSE IF toks[p.pos].type # "Colon"
                  THEN Err("parser: unexpected token in function declaration")
             ELSE IF p.pos + 1 > Len(toks)
                  THEN Err("parser: unexpected end of document in function declaration")
             ELSE IF toks[p.pos + 1].type # "TypeDef"
                  THEN Err("unexpected token in function declaration, expected TypeDef")
             ELSE IF p.pos + 2 > Len(toks)
                  THEN Err("parser: unexpected end of document in function declaration")
             ELSE IF toks[p.pos + 2].type # "EndLine" THEN Err("parser: expected end of line")
             ELSE At(Header(name, p.val, <<toks[p.pos + 1].text>>), p.pos + 3))

build_return_ast(toks, pos) ==
    IF pos > Len(toks) THEN At(ReturnStatement(<<>>), pos)
    ELSE With(build_expression_ast(toks, pos), LAMBDA e :
              IF e.status # "ok" THEN e ELSE At(ReturnStatement(<<e.val>>), e.pos))

build_function_declaration_ast(toks, pos) ==
    With(parse_function_header(toks, pos), LAMBDA h :
         IF h.status # "ok" THEN h
         ELSE At(FunctionHeader(h.val.name, h.val.parameters, h.val.return_type), h.pos))

build_declaration_ast(toks, pos) ==
    IF pos > Len(toks) THEN Err("unexpected end of document after declare keyword")
    ELSE IF IsKeyword(toks[pos], "function") THEN build_function_declaration_ast(toks, pos + 1)
    ELSE Err("unexpected token after declare keyword")

\* A blank line: the EndLine is consumed and no node is produced.
NoNode(pos) == [status |-> "none", pos |-> pos]

RECURSIVE build_ast(_, _)
RECURSIVE build_conditional_ast(_, _, _)
RECURSIVE valid_branch_loop(_, _, _, _)
RECURSIVE invalid_branch_loop(_, _, _, _)
RECURSIVE build_function_ast(_, _)
RECURSIVE function_body_loop(_, _, _)
RECURSIVE build_while_loop_ast(_, _)
RECURSIVE while_body_loop(_, _, _)

\* A conditional that takes the closing `end` whether or not it is nested
after_end_always_consumed(pos, nested_if) == pos + 1

\* build_conditional_ast, lines 50-53 and 76-79: `end` is consumed unless nested_if
after_end(pos, nested_if) == IF nested_if THEN pos ELSE pos + 1

\* build_conditional_ast, lines 36-66: the statements of the then branch, up to
\* `else` (consumed) or `end` (consumed unless nested_if).
valid_branch_loop(toks, pos, nested_if, kids) ==
    IF pos > Len(toks) THEN Err("parser: unfinished if statement")
    ELSE IF IsKeyword(toks[pos], "else")
         THEN At([children |-> kids, has_else_statement |-> TRUE], pos + 1)
    ELSE IF IsKeyword(toks[pos], "end")
         THEN At([children |-> kids, has_else_statement |-> FALSE], after_end(pos, nested_if))
    ELSE With(build_ast(toks, pos), LAMBDA r :
              IF r.status = "none" THEN valid_branch_loop(toks, r.pos, nested_if, kids)
              ELSE IF r.status # "ok" THEN r
              ELSE valid_branch_loop(toks, r.pos, nested_if, Append(kids, r.val)))

\* build_conditional_ast, lines 68-102: the statements of the else branch, up to
\* `end` (consumed unless nested_if); an `if` met here is parsed with nested_if.
invalid_branch_loop(toks, pos, nested_if, kids) ==
    IF pos > Len(toks) THEN Err("parser: unfinished if-else statement")
    ELSE IF IsKeyword(toks[pos], "end") THEN At(kids, after_end(pos, nested_if))
    ELSE IF toks[pos].type = "EndLine" THEN invalid_branch_loop(toks, pos + 1, nested_if, kids)
    ELSE IF IsKeyword(toks[pos], "if")
         THEN With(build_conditional_ast(toks, pos + 1, TRUE), LAMBDA c :
                   IF c.status # "ok" THEN c
                   ELSE invalid_branch_loop(toks, c.pos, nested_if, Append(kids, c.val)))
    ELSE With(build_ast(toks, pos), LAMBDA r :
              IF r.status = "none" THEN invalid_branch_loop(toks, r.pos, nested_if, kids)
              ELSE IF r.status # "ok" THEN r
              ELSE invalid_branch_loop(toks, r.pos, nested_if, Append(kids, r.val)))

build_conditional_ast(toks, pos, nested_if) ==
    With(build_expression_ast(toks, pos), LAMBDA condition :
         IF condition.status # "ok" THEN condition
         ELSE With(valid_branch_loop(toks, condition.pos, nested_if, <<>>), LAMBDA valid :
              IF valid.status # "ok" THEN valid
              ELSE IF ~valid.val.has_else_statement
                   THEN At(Condition(condition.val, valid.val.children, <<>>), valid.pos)
              ELSE With(invalid_branch_loop(toks, valid.pos, nested_if, <<>>), LAMBDA invalid :
                   IF invalid.status # "ok" THEN invalid
                   ELSE At(Condition(condition.val, valid.val.children, invalid.val),
                           invalid.pos))))

\* build_function_ast, lines 304-326: the statements of the body, up to `end`
function_body_loop(toks, pos, kids) ==
    IF pos > Len(toks) THEN Err("parser: unexpected end of document parsing function")
    ELSE IF IsKeyword(toks[pos], "end") THEN At(kids, pos + 1)
    ELSE With(build_ast(toks, pos), LAMBDA r :
              IF r.status = "none" THEN function_body_loop(toks, r.pos, kids)
              ELSE IF r.status # "ok" THEN r
              ELSE function_body_loop(toks, r.pos, Append(kids, r.val)))

build_function_ast(toks, pos) ==
    With(parse_function_header(toks, pos), LAMBDA h :
         IF h.status # "ok" THEN h
         ELSE With(function_body_loop(toks, h.pos, <<>>), LAMBDA body :
              IF body.status # "ok" THEN body
              ELSE At(FunctionDeclarationAst(h.val.name, body.val, h.val.parameters,
                                             h.val.return_type), body.pos)))

\* build_while_loop_ast, lines 683-705: the statements of the loop, up to `end`
while_body_loop(toks, pos, kids) ==
    IF pos > Len(toks) THEN Err("parser: error in while loop, unexpected end of document")
    ELSE IF IsKeyword(toks[pos], "end") THEN At(kids, pos + 1)
    ELSE With(build_ast(toks, pos), LAMBDA r :
              IF r.status = "none" THEN while_body_loop(toks, r.pos, kids)
              ELSE IF r.status # "ok" THEN r
              ELSE while_body_loop(toks, r.pos, Append(kids, r.val)))

build_while_loop_ast(toks, pos) ==
    With(build_expression_ast(toks, pos), LAMBDA condition :
         IF condition.status # "ok" THEN condition
         ELSE With(while_body_loop(toks, condition.pos, <<>>), LAMBDA body :
              IF body.status # "ok" THEN body
              ELSE At(WhileLoop(condition.val, body.val), body.pos)))

\* build_ast: the statement dispatch on the next token
build_ast(toks, pos) ==
    IF pos > Len(toks) THEN Err("missing token")
    ELSE IF toks[pos].type = "EndLine" THEN NoNode(pos + 1)
    ELSE IF IsKeyword(toks[pos], "if") THEN build_conditional_ast(toks, pos + 1, FALSE)
    ELSE IF IsKeyword(toks[pos], "function") THEN build_function_ast(toks, pos + 1)
    ELSE IF IsKeyword(toks[pos], "declare") THEN build_declaration_ast(toks, pos + 1)
    ELSE IF IsKeyword(toks[pos], "while") THEN build_while_loop_ast(toks, pos + 1)
    ELSE IF IsKeyword(toks[pos], "return") THEN build_return_ast(toks, pos + 1)
    ELSE build_expression_ast(toks, pos)

\* load_ast as a function: build_ast until the tokens are used up
RECURSIVE load_ast_from(_, _, _)
load_ast_from(toks, pos, kids) ==
    IF pos > Len(toks) THEN Ok(kids)
    ELSE With(build_ast(toks, pos), LAMBDA r :
              IF r.status = "none" THEN load_ast_from(toks, r.pos, kids)
              ELSE IF r.status # "ok" THEN r
              ELSE load_ast_from(toks, r.pos, Append(kids, r.val)))

load_ast(toks) == load_ast_from(toks, 1, <<>>)

(***************************************************************************)
(* compiler/mod.rs: types, signatures, scopes                              *)
(***************************************************************************)
Type(name, size) == [name |-> name, size |-> size]

IntSize == 4

BoolSize == 1

FloatSize == 8

ArraySize == 8

StringSize == 8

int_type == Type(Chars("int"), IntSize)

bool_type == Type(Chars("bool"), BoolSize)

float_type == Type(Chars("float"), FloatSize)

array_type == Type(Chars("array"), ArraySize)

string_type == Type(Chars("str"), StringSize)

\* compiler::Variable
TypedVariable(name, typeval) == [name |-> name, typeval |-> typeval]

FunctionDeclaration(name, parameters, return_type, implemented) ==
    [name |-> name, parameters |-> parameters, return_type |-> return_type,
     implemented |-> implemented]

\* impl PartialEq (and Hash) for FunctionDeclaration: the name and the parameter types
SameSignature(d1, d2) == d1.name = d2.name /\ d1.parameters = d2.parameters

Function(name, variables, statements) ==
    [name |-> name, variables |-> variables, statements |-> statements]

\* Scope; functions_symbol_table (a HashMap) is the set of its entries
\* [key, value], with at most one entry per signature.
Scope(functions, variables, types, parent, table) ==
    [functions |-> functions, variables |-> variables, types |-> types,
     parent |-> parent, functions_symbol_table |-> table]

new_global_scope ==
    Scope(<<>>, <<>>, <<int_type, float_type, string_type, bool_type, array_type>>, <<>>, {})

new_scope(parent) == Scope(<<>>, <<>>, <<>>, parent, {})

\* HashMap::get_key_value: the entry stored under dec's signature (<<>> when none)
TableGet(table, dec) ==
    IF \E e \in table : SameSignature(e.key, dec)
    THEN <<CHOOSE e \in table : SameSignature(e.key, dec)>>
    ELSE <<>>

TableRemove(table, dec) == {e \in table : ~SameSignature(e.key, dec)}

\* HashMap::insert: a stored key is kept, only its value is replaced
TableInsert(table, dec, value) ==
    IF TableGet(table, dec) = <<>> THEN table \cup {[key |-> dec, value |-> value]}
    ELSE TableRemove(table, dec) \cup {[key |-> TableGet(table, dec)[1].key, value |-> value]}

\* impl ToString for FunctionDeclaration: name(type1,type2,...)
RECURSIVE JoinTypeNames(_)
JoinTypeNames(parameters) ==
    IF parameters = <<>> THEN <<>>
    ELSE IF Len(parameters) = 1 THEN parameters[1].name
    ELSE parameters[1].name \o <<",">> \o JoinTypeNames(Tail(parameters))

to_string(declaration) ==
    declaration.name \o <<"(">> \o JoinTypeNames(declaration.parameters) \o <<")">>

build_function_name(scope_name, declaration) ==
    scope_name \o <<"_">> \o to_string(declaration)

\* The name of the scope of a function's body: format!("{}_{}", scope_name, name)
sub_scope_name(scope_name, name) == scope_name \o <<"_">> \o name

\* A lookup by name alone: the first declaration of that name, whatever its parameters
RECURSIVE function_exists_by_name(_, _, _)
function_exists_by_name(name, param_types, scope) ==
    IF \E i \in 1..Len(scope.functions) : scope.functions[i].name = name
    THEN LET i == CHOOSE k \in 1..Len(scope.functions) :
                      /\ scope.functions[k].name = name
                      /\ \A j \in 1..(k - 1) : scope.functions[j].name # name
         IN  <<scope.functions[i]>>
    ELSE IF scope.parent # <<>> THEN function_exists_by_name(name, param_types, scope.parent[1])
    ELSE <<>>

RECURSIVE function_exists(_, _, _)
function_exists(name, param_types, scope) ==
    IF \E i \in 1..Len(scope.functions) :
           scope.functions[i].name = name /\ scope.functions[i].parameters = param_types
    THEN LET i == CHOOSE k \in 1..Len(scope.functions) :
                      /\ scope.functions[k].name = name
                      /\ scope.functions[k].parameters = param_types
                      /\ \A j \in 1..(k - 1) :
                             ~(/\ scope.functions[j].name = name
                               /\ scope.functions[j].parameters = param_types)
         IN  <<scope.functions[i]>>
    ELSE IF scope.parent # <<>> THEN function_exists(name, param_types, scope.parent[1])
    ELSE <<>>

get_function_return_type(name, param_types, scope) ==
    IF function_exists(name, param_types, scope) = <<>>
    THEN Err("no function with the following signature")
    ELSE Ok(function_exists(name, param_types, scope)[1].return_type)

RECURSIVE get_type(_, _)
get_type(typename, scope) ==
    IF \E i \in 1..Len(scope.types) : scope.types[i].name = typename
    THEN Ok(scope.types[CHOOSE i \in 1..Len(scope.types) :
                            /\ scope.types[i].name = typename
                            /\ \A j \in 1..(i - 1) : scope.types[j].name # typename])
    ELSE IF scope.parent # <<>> THEN get_type(typename, scope.parent[1])
    ELSE Err("undefined type")

convert_type(old_type, scope) ==
    IF old_type = <<>> THEN Ok(<<>>)
    ELSE LET t == get_type(old_type[1], scope)
         IN  IF t.status # "ok" THEN t ELSE Ok(<<t.val>>)

\* convert_params: typename.unwrap() panics on a parameter without a type
RECURSIVE convert_params(_, _)
convert_params(parser_params, scope) ==
    IF parser_params = <<>> THEN Ok(<<>>)
    ELSE LET param == Head(parser_params)
             t     == get_type(param.typename[1].name, scope)
             rest  == convert_params(Tail(parser_params), scope)
         IN  IF param.typename = <<>> THEN Panic("called Option::unwrap() on a None value")
             ELSE IF t.status # "ok" THEN t
             ELSE IF rest.status # "ok" THEN rest
             ELSE Ok(<<t.val>> \o rest.val)

RECURSIVE get_function_effective_name(_, _)
get_function_effective_name(declaration, scope) ==
    IF TableGet(scope.functions_symbol_table, declaration) # <<>>
    THEN Ok(TableGet(scope.functions_symbol_table, declaration)[1].value)
    ELSE IF scope.parent # <<>> THEN get_function_effective_name(declaration, scope.parent[1])
    ELSE Err("undefined symbol")

get_local_variable_type(name, scope) ==
    IF \E i \in 1..Len(scope.variables) : scope.variables[i].name = name
    THEN <<scope.variables[CHOOSE i \in 1..Len(scope.variables) :
                               /\ scope.variables[i].name = name
                               /\ \A j \in 1..(i - 1) : scope.variables[j].name # name].typeval>>
    ELSE <<>>

RECURSIVE get_variable_type(_, _)
get_variable_type(name, scope) ==
    IF get_local_variable_type(name, scope) # <<>>
    THEN Ok(get_local_variable_type(name, scope)[1])
    ELSE IF scope.parent # <<>> THEN get_variable_type(name, scope.parent[1])
    ELSE Err("unknown variable")

(***************************************************************************)
(* compiler/mod.rs: expression types                                       *)
(***************************************************************************)
ComparisonTags == {"EqualTo", "NotEqualTo", "GreaterThan", "GreaterOrEqual",
                   "LowerThan", "LowerOrEqual"}

ArithmeticTags == {"Substraction", "Addition", "Division", "Multiplication", "Modulo"}

\* format!("mismatching types '{}' and '{}'", type1.name, type2.name), as text
mismatching_types(type1, type2) ==
    Chars("mismatching types '") \o type1.name \o Chars("' and '") \o type2.name \o Chars("'")

\* A typing of arithmetic nodes that promotes nothing: operands of two types
\* are a mismatch
arithmetic_type_unpromoted(type1, type2) ==
    IF type1 # type2 THEN Err(mismatching_types(type1, type2)) ELSE Ok(type1)

\* calculate_expression_type, lines 226-236: the type of an arithmetic node from
\* the types of its right (type1) and left (type2) operands
arithmetic_type(type1, type2) ==
    IF type1 # type2
    THEN IF type1 = float_type /\ (type2 = float_type \/ type2 = int_type) THEN Ok(type1)
         ELSE IF type2 = float_type /\ (type1 = int_type \/ type1 = float_type) THEN Ok(type2)
         ELSE Err(mismatching_types(type1, type2))
    ELSE Ok(type1)

RECURSIVE calculate_expression_type(_, _)
RECURSIVE argument_types(_, _)

\* The loops at lines 240-246 and 422-428: the types of a call's arguments, in order
argument_types(kids, scope) ==
    IF kids = <<>> THEN Ok(<<>>)
    ELSE LET t    == calculate_expression_type(Head(kids), scope)
             rest == argument_types(Tail(kids), scope)
         IN  IF t.status # "ok" THEN t
             ELSE IF rest.status # "ok" THEN rest
             ELSE Ok(<<t.val>> \o rest.val)

calculate_expression_type(expression, scope) ==
    CASE expression.tag = "Int" -> Ok(int_type)
      [] expression.tag = "Float" -> Ok(float_type)
      [] expression.tag = "Bool" -> Ok(bool_type)
      [] expression.tag = "ArrayValue" -> Ok(array_type)
      [] expression.tag = "Str" -> Ok(string_type)
      [] expression.tag \in ComparisonTags -> Ok(bool_type)
      [] expression.tag \in ArithmeticTags ->
           LET type1 == calculate_expression_type(expression.right, scope)
               type2 == calculate_expression_type(expression.left, scope)
           IN  IF type1.status # "ok" THEN type1
               ELSE IF type2.status # "ok" THEN type2
               ELSE arithmetic_type(type1.val, type2.val)
      [] expression.tag = "Variable" -> get_variable_type(expression.var.name, scope)
      [] expression.tag = "FunctionCall" ->
           LET types == argument_types(expression.children, scope)
               ret   == get_function_return_type(expression.name, types.val, scope)
           IN  IF types.status # "ok" THEN types
               ELSE IF ret.status # "ok" THEN ret
               ELSE IF ret.val = <<>>
                    THEN Err("function with void return type cannot be used as an expression.")
               ELSE Ok(ret.val[1])
      [] OTHER -> Panic("not yet implemented")

(***************************************************************************)
(* compiler/mod.rs: flatten_tree                                           *)
(***************************************************************************)
\* What one call of flatten_tree holds while it walks its statements: its scope,
\* the function the statements are emitted into (func_impl), the functions
\* flattened so far (children_functions) and the extern list shared by all calls
\* (kept as a set: its order is the iteration order of a HashMap).
Walk(scope, func_impl, children_functions, extern_symbols) ==
    [scope |-> scope, func_impl |-> func_impl, children_functions |-> children_functions,
     extern_symbols |-> extern_symbols]

Emit(w, statement) ==
    [w EXCEPT !.func_impl.statements = Append(@, statement)]

\* flatten_tree, lines 476-478: the signatures of the scope's table that are not
\* implemented join the extern list
collect_extern(w) ==
    [w EXCEPT !.extern_symbols =
        @ \cup {e.key : e \in {x \in w.scope.functions_symbol_table : ~x.key.implemented}}]

\* A check that compares no return types
check_redeclaration_only(table, dec) ==
    LET found == TableGet(table, dec)
    IN  IF found # <<>> /\ found[1].key.implemented THEN Err("redeclaration of function")
        ELSE Ok(dec)

\* flatten_tree, lines 349-366: a full declaration against the entry already
\* stored under its signature
check_redeclaration(table, dec) ==
    LET found == TableGet(table, dec)
    IN  IF found # <<>> /\ found[1].key.implemented THEN Err("redeclaration of function")
        ELSE IF found # <<>> /\ found[1].key.return_type # dec.return_type
             THEN Err("invalid return type for function")
        ELSE Ok(dec)

\* flatten_tree, lines 368-372: the signature becomes visible and is given its name
register_function(scope, scope_name, dec) ==
    [scope EXCEPT !.functions = Append(@, dec),
                  !.functions_symbol_table =
                      TableInsert(TableRemove(@, dec), dec, build_function_name(scope_name, dec))]

\* An assignment that never compares the expression's type with the variable's
assign_variable_unchecked(w, name, expression_type) ==
    LET known   == get_variable_type(name, w.scope)
        new_var == TypedVariable(name, expression_type)
    IN  IF known.status # "ok"
        THEN Ok([w EXCEPT !.scope.variables = Append(@, new_var),
                          !.func_impl.variables = Append(@, new_var)])
        ELSE Ok(w)

\* flatten_tree, lines 457-466: the assignment against the variable's type
assign_variable(w, name, expression_type) ==
    LET known   == get_variable_type(name, w.scope)
        new_var == TypedVariable(name, expression_type)
    IN  IF known.status = "ok" /\ known.val # expression_type
        THEN Err("mismatching type for variable")
        ELSE IF known.status # "ok"
        THEN Ok([w EXCEPT !.scope.variables = Append(@, new_var),
                          !.func_impl.variables = Append(@, new_var)])
        ELSE Ok(w)

RECURSIVE flatten_child(_, _, _)
RECURSIVE flatten_tree(_, _, _, _, _)
RECURSIVE flatten_children(_, _, _, _)

\* flatten_tree, lines 330-392: a function declaration with a body
flatten_function_declaration(child, w, scope_name) ==
    LET parameters  == convert_params(child.parameters, w.scope)
        return_type == convert_type(child.return_type, w.scope)
        dec         == FunctionDeclaration(child.name, parameters.val, return_type.val, TRUE)
        checked     == check_redeclaration(w.scope.functions_symbol_table, dec)
        scope       == register_function(w.scope, scope_name, dec)
        sub         == flatten_tree(child.children, new_scope(<<scope>>),
                                    sub_scope_name(scope_name, child.name),
                                    Function(build_function_name(scope_name, dec), <<>>, <<>>),
                                    w.extern_symbols)
    IN  IF parameters.status # "ok" THEN parameters
        ELSE IF return_type.status # "ok" THEN return_type
        ELSE IF checked.status # "ok" THEN checked
        ELSE IF sub.status # "ok" THEN sub
        ELSE Ok(Walk(scope, w.func_impl,
                     w.children_functions \o sub.val.children_functions
                         \o <<sub.val.func_impl>>,
                     sub.val.extern_symbols))

\* flatten_tree, lines 393-420: a header-only declaration in the global scope
flatten_function_header(child, w, scope_name) ==
    LET parameters  == convert_params(child.parameters, w.scope)
        return_type == convert_type(child.return_type, w.scope)
        dec         == FunctionDeclaration(child.name, parameters.val, return_type.val, FALSE)
    IN  IF parameters.status # "ok" THEN parameters
        ELSE IF return_type.status # "ok" THEN return_type
        ELSE IF TableGet(w.scope.functions_symbol_table, dec) # <<>>
             THEN Err("redeclaration of function")
        ELSE Ok([w EXCEPT !.scope = register_function(w.scope, scope_name, dec)])

\* flatten_tree, lines 421-444: a call statement
flatten_function_call(child, w) ==
    LET types == argument_types(child.children, w.scope)
        dec   == function_exists(child.name, types.val, w.scope)
        effective_name == get_function_effective_name(dec[1], w.scope)
    IN  IF types.status # "ok" THEN types
        ELSE IF dec = <<>> THEN Err("undefined function")
        ELSE IF effective_name.status # "ok" THEN effective_name
        ELSE Ok(Emit(w, FunctionCall(effective_name.val, child.children)))

\* flatten_tree, lines 446-470: an assignment
flatten_assignement(child, w) ==
    LET expression_type == calculate_expression_type(child.expression, w.scope)
        assigned == assign_variable(w, child.variable.var.name, expression_type.val)
    IN  IF child.variable.tag # "Variable" THEN Err("can only assign value to a variable.")
        ELSE IF expression_type.status # "ok" THEN expression_type
        ELSE IF assigned.status # "ok" THEN assigned
        ELSE Ok(Emit(assigned.val, child))

\* flatten_tree, lines 329-472: one statement of the loop
flatten_child(child, w, scope_name) ==
    CASE child.tag = "FunctionDeclaration" -> flatten_function_declaration(child, w, scope_name)
      [] child.tag = "FunctionHeader" /\ w.scope.parent = <<>> ->
           flatten_function_header(child, w, scope_name)
      [] child.tag = "FunctionCall" -> flatten_function_call(child, w)
      [] child.tag = "FunctionHeader" /\ w.scope.parent # <<>> ->
           Err("cannot create nested function declarations")
      [] child.tag = "Assignement" -> flatten_assignement(child, w)
      [] OTHER -> Ok(Emit(w, child))

\* The loop of flatten_tree over the first n statements
flatten_children(kids, n, w, scope_name) ==
    IF n = 0 THEN Ok(w)
    ELSE LET before == flatten_children(kids, n - 1, w, scope_name)
         IN  IF before.status # "ok" THEN before
             ELSE flatten_child(kids[n], before.val, scope_name)

flatten_tree(kids, scope, scope_name, func_impl, extern_symbols) ==
    LET walked == flatten_children(kids, Len(kids),
                                   Walk(scope, func_impl, <<>>, extern_symbols), scope_name)
    IN  IF walked.status # "ok" THEN walked ELSE Ok(collect_extern(walked.val))

\* build_compiler_context: the global call of flatten_tree
main_walk == Walk(new_global_scope, Function(Chars("main"), <<>>, <<>>), <<>>, {})

build_compiler_context(kids) ==
    flatten_tree(kids, new_global_scope, <<>>, Function(Chars("main"), <<>>, <<>>), {})

Fail(stage, r) ==
    /\ outcome' = [stage |-> stage, status |-> r.status, msg |-> r.msg]
    /\ phase' = "done"

LexChar ==
    /\ phase = "lex"
    /\ line_index <= Len(lines)
    /\ char_index <= Len(lines[line_index])
    /\ LET r == lex_iteration(lines[line_index][char_index], context, current_token,
                              tokens, overflow_checks)
       IN  IF r.status # "ok"
           THEN /\ Fail("lexer", r)
                /\ UNCHANGED <<line_index, char_index, context, current_token, tokens>>
           ELSE /\ tokens' = r.val.result
                /\ context' = r.val.context
                /\ current_token' = r.val.current_token
                /\ char_index' = IF r.val.next_char THEN char_index + 1 ELSE char_index
                /\ UNCHANGED <<line_index, phase, outcome>>
    /\ UNCHANGED <<overflow_checks, lines, token_pos, children, child_index, ctx>>

LexEndOfLine ==
    /\ phase = "lex"
    /\ line_index <= Len(lines)
    /\ char_index > Len(lines[line_index])
    /\ LET r == lex_end_of_line(context, current_token, tokens, overflow_checks)
       IN  IF r.status # "ok"
           THEN /\ Fail("lexer", r)
                /\ UNCHANGED <<line_index, char_index, context, current_token, tokens>>
           ELSE /\ tokens' = r.val
                /\ context' = "None"
                /\ current_token' = <<>>
                /\ line_index' = line_index + 1
                /\ char_index' = 1
                /\ UNCHANGED <<phase, outcome>>
    /\ UNCHANGED <<overflow_checks, lines, token_pos, children, child_index, ctx>>

\* tokenize, line 305: Ok(result), handed to load_ast
LexFinish ==
    /\ phase = "lex"
    /\ line_index > Len(lines)
    /\ phase' = "parse"
    /\ UNCHANGED <<overflow_checks, lines, line_index, char_index, context, current_token,
                   tokens, token_pos, children, child_index, ctx, outcome>>

\* load_ast, lines 14-21: one iteration of the loop, one call of build_ast
ParseStatement ==
    /\ phase = "parse"
    /\ token_pos <= Len(tokens)
    /\ LET r == build_ast(tokens, token_pos)
       IN  IF r.status \in {"err", "panic"}
           THEN /\ Fail("parser", r)
                /\ UNCHANGED <<token_pos, children>>
           ELSE /\ token_pos' = r.pos
                /\ children' = IF r.status = "none" THEN children ELSE Append(children, r.val)
                /\ UNCHANGED <<phase, outcome>>
    /\ UNCHANGED <<overflow_checks, lines, line_index, char_index, context, current_token,
                   tokens, child_index, ctx>>

\* load_ast, line 23: Ok(Ast::Global(children)), handed to the analyzer
ParseFinish ==
    /\ phase = "parse"
    /\ token_pos > Len(tokens)
    /\ phase' = "analyze"
    /\ UNCHANGED <<overflow_checks, lines, line_index, char_index, context, current_token,
                   tokens, token_pos, children, child_index, ctx, outcome>>

\* flatten_tree (the global call), lines 328-474: one iteration of the loop
FlattenStatement ==
    /\ phase = "analyze"
    /\ child_index <= Len(children)
    /\ LET r == flatten_child(children[child_index], ctx, <<>>)
       IN  IF r.status # "ok"
           THEN /\ Fail("analyzer", r)
                /\ UNCHANGED <<child_index, ctx>>
           ELSE /\ ctx' = r.val
                /\ child_index' = child_index + 1
                /\ UNCHANGED <<phase, outcome>>
    /\ UNCHANGED <<overflow_checks, lines, line_index, char_index, context, current_token,
                   tokens, token_pos, children>>

\* flatten_tree (the global call), lines 476-480: the extern list is completed and
\* the flattened functions are returned
FlattenFinish ==
    /\ phase = "analyze"
    /\ child_index > Len(children)
    /\ ctx' = collect_extern(ctx)
    /\ outcome' = [stage |-> "analyzer", status |-> "ok", msg |-> ""]
    /\ phase' = "done"
    /\ UNCHANGED <<overflow_checks, lines, line_index, char_index, context, current_token,
                   tokens, token_pos, children, child_index>>


(***************************************************************************)
(* Inputs                                                                  *)
(***************************************************************************)
Running == [stage |-> "none", status |-> "running", msg |-> ""]

\* A source text: its lines, each a sequence of characters
Src(text) == [i \in 1..Len(text) |-> Chars(text[i])]

Range(s) == {s[i] : i \in 1..Len(s)}

SeqsUpTo(S, n) == UNION {[1..k -> S] : k \in 0..n}

Digit(k) == <<"0", "1", "2", "3", "4", "5", "6", "7", "8", "9">>[k + 1]

(***************************************************************************)
(* Inputs of the whole pipeline: source programs                           *)
(***************************************************************************)
ParameterProgram == Src(<<"function f(x: int)", "  y <- x + 1", "end">>)

DeclarePrograms ==
    { Src(<<"declare function g(x:int): int">>),
      Src(<<"x <- 1", "declare function g(x:int): int">>) }

NestedOverloadsProgram ==
    Src(<<"function f(x: int)", "  function g()", "  end", "end",
          "function f(x: float)", "  function g()", "  end", "end">>)

UnderscoreProgram ==
    Src(<<"function f_g()", "end", "function f()", "  function g()", "  end", "end">>)

NestedCallProgram ==
    Src(<<"function f()", "  function g(): int", "  end", "  g()", "  y <- g()", "end">>)

LeadingMinusProgram == Src(<<"-3 + 4">>)

\* Assignments whose right-hand side is a unary minus, a unary plus, an array
\* access; a call with a unary minus as argument
UnmatchedExpressionPrograms ==
    { Src(<<"x <- -1">>), Src(<<"x <- +1">>), Src(<<"y <- arr[0]">>),
      Src(<<"function f(x: int)", "end", "f(-1)">>) }

\* An annotated assignment whose expression has another type than the annotation
AnnotatedProgram == Src(<<"x: int <- 1.5">>)

\* A function declared to return int whose body returns a float
ReturnMismatchProgram == Src(<<"function f(): int", "  return 1.5", "end">>)

\* The same function returning an int
ReturnMatchProgram == Src(<<"function f(): int", "  return 1", "end">>)

\* The names of the built-in types as written in source, each with the
\* built-in type it stands for
BuiltinTypeNames ==
    { <<Chars("int"), int_type>>, <<Chars("float"), float_type>>,
      <<Chars("bool"), bool_type>>, <<Chars("string"), string_type>>,
      <<Chars("array"), array_type>> }

\* function f(x: T): T / end
AnnotationProgram(typename) ==
    << Chars("function f(x: ") \o typename \o Chars("): ") \o typename, Chars("end") >>

\* The same declaration in the scope of the body of a function g
NestedAnnotationProgram(typename) ==
    << Chars("function g()"),
       Chars("  function f(x: ") \o typename \o Chars("): ") \o typename,
       Chars("  end"), Chars("end") >>

AnnotationPrograms ==
    { AnnotationProgram(b[1]) : b \in BuiltinTypeNames }
        \cup { NestedAnnotationProgram(b[1]) : b \in BuiltinTypeNames }

Programs ==
    { Src(<<"a <- 1 + 2 * 3">>),
      ReturnMismatchProgram,
      ReturnMatchProgram,
      LeadingMinusProgram,
      Src(<<"x <- 1", "-3 + 4">>),
      Src(<<"function f(x: int)", "end", "function f(x: float)", "end", "f(1)", "f(1.0)">>),
      ParameterProgram,
      NestedOverloadsProgram,
      UnderscoreProgram,
      NestedCallProgram,
      Src(<<"f(1)">>),
      Src(<<"if a > b", "  x <- 1", "else if c", "  y <- 2", "end">>),
      Src(<<"arr[0] <- 1.50", "s <- \"a b\" ">>),
      Src(<<"x <- 1", "x <- 2.5">>),
      Src(<<"x <- 1 # 2">>),
      AnnotatedProgram,
      Src(<<"x: int <- 1">>),
      Src(<<"y <- [1, 2]">>) } \cup DeclarePrograms \cup UnmatchedExpressionPrograms
      \cup AnnotationPrograms

Init ==
    /\ overflow_checks \in BOOLEAN
    /\ lines \in Programs
    /\ line_index = 1
    /\ char_index = 1
    /\ context = "None"
    /\ current_token = <<>>
    /\ tokens = <<>>
    /\ token_pos = 1
    /\ children = <<>>
    /\ child_index = 1
    /\ ctx = main_walk
    /\ phase = "lex"
    /\ outcome = Running

Next ==
    \/ LexChar
    \/ LexEndOfLine
    \/ LexFinish
    \/ ParseStatement
    \/ ParseFinish
    \/ FlattenStatement
    \/ FlattenFinish

Spec == Init /\ [][Next]_vars

(***************************************************************************)
(* Inputs of the lexer: generated lines                                    *)
(***************************************************************************)
\* The largest number of characters of a generated line
MaxLineLength == 2

\* The largest number of digits of the integer literals generated exhaustively
MaxDigits == 2

\* The largest number of characters of a generated whitespace-only line
MaxBlank == 3

\* A name character, a digit, the space, an operator, three separators and the quote
LexerAlphabet == {"a", "1", " ", "-", "(", "[", "]", "\""}

LexerLines == SeqsUpTo(LexerAlphabet, MaxLineLength)

\* How a following line starts: with nothing, with any one character, or with one
\* of three two-character openings (a call, a signed literal, an open quote)
LineStarts ==
    {<<>>} \cup {<<c>> : c \in LexerAlphabet} \cup {<<"a", "(">>, <<"-", "1">>, <<"\"", "a">>}

Digits == {Digit(k) : k \in 0..9}

\* Literals around the ends of the i32, i64 and u64 ranges, and a long literal of
\* a small value
BoundaryLiterals ==
    { Chars("2147483647"), Chars("2147483648"), Chars("4294967296"),
      Chars("9223372036854775807"), Chars("9223372036854775808"),
      Chars("18446744073709551615"), Chars("18446744073709551616"),
      Chars("99999999999999999999"), Chars("00000000000000000000042") }

\* Non-empty strings of decimal digits
IntegerLiterals == (SeqsUpTo(Digits, MaxDigits) \ {<<>>}) \cup BoundaryLiterals

\* The space and the horizontal tab
WhitespaceCharacters == {" ", "\t"}

WhitespaceLines == SeqsUpTo(WhitespaceCharacters, MaxBlank)

\* Lines with a closing bracket after a type, after an index and after a name
ClosingBracketSources ==
    { Src(<<"x: int[]">>), Src(<<"a[1]">>), Src(<<"a []">>), Src(<<"x: a[] ]">>) }

\* Runs of operator characters, and the text before a run: nothing, a variable,
\* a binary operator, a keyword, a comma, an opening parenthesis
MaxRun == 3

OperatorAlphabet == {"+", "-", "<", "=", "!", "*"}

OperatorRuns == SeqsUpTo(OperatorAlphabet, MaxRun) \ {<<>>}

RunPrefixes ==
    { <<>>, Chars("a"), Chars("a * "), Chars("return "), Chars("f(a, "), Chars("(") }

\* One line: a prefix, a run and the operand 3
OperatorSources ==
    { <<p \o run \o Chars("3")>> : p \in RunPrefixes, run \in OperatorRuns }

\* Programs of no line, of one generated line and of a generated line followed by
\* a line start; one integer literal; a whitespace-only line alone and after a
\* line of text
LexerSources ==
    {<<>>} \cup {<<l>> : l \in LexerLines} \cup {<<l1, l2>> : l1 \in LexerLines, l2 \in LineStarts}
        \cup {<<n>> : n \in IntegerLiterals}
        \cup {<<w>> : w \in WhitespaceLines}
        \cup {<<Chars("a <- 1"), w>> : w \in WhitespaceLines}
        \cup ClosingBracketSources
        \cup OperatorSources
        \cup {Src(<<"x <- 1", "-3 + 4">>)}

\* tokenize entered with the lines of a source
InitLexer ==
    /\ overflow_checks \in BOOLEAN
    /\ lines \in LexerSources
    /\ line_index = 1
    /\ char_index = 1
    /\ context = "None"
    /\ current_token = <<>>
    /\ tokens = <<>>
    /\ token_pos = 1
    /\ children = <<>>
    /\ child_index = 1
    /\ ctx = main_walk
    /\ phase = "lex"
    /\ outcome = Running

NextLexer ==
    \/ LexChar
    \/ LexEndOfLine
    \/ LexFinish

SpecLexer == InitLexer /\ [][NextLexer]_vars

(***************************************************************************)
(* Inputs of the parser: the token streams of generated sources            *)
(***************************************************************************)
\* The largest number of binary operators in a generated expression
MaxOperators == 2

\* The largest number of `else if` levels in a generated conditional
MaxChain == 3

ArithmeticOperators == {"+", "-", "*", "/", "%"}

\* An expression o1 op1 o2 op2 ...: its operators, and for each operand whether
\* it carries a unary minus; the k-th operand is the literal k
ExpressionShapes ==
    UNION { [ops : [1..n -> ArithmeticOperators], neg : [1..(n + 1) -> BOOLEAN]]
            : n \in 1..MaxOperators }

OperandText(d, i) == (IF d.neg[i] THEN <<"-">> ELSE <<>>) \o <<Digit(i)>>

RECURSIVE ExpressionTail(_, _)
ExpressionTail(d, i) ==
    IF i > Len(d.ops) THEN <<>>
    ELSE <<" ", d.ops[i], " ">> \o OperandText(d, i + 1) \o ExpressionTail(d, i + 1)

\* The source line `a <- o1 op1 o2 ...`
ExpressionLine(d) == Chars("a <- ") \o OperandText(d, 1) \o ExpressionTail(d, 1)

\* The lines `else if c` / `x <- k+1` of the levels k..depth
RECURSIVE ChainLevels(_, _)
ChainLevels(k, depth) ==
    IF k > depth THEN <<>>
    ELSE <<Chars("else if c"), Chars("  x <- ") \o <<Digit(k + 1)>>>> \o ChainLevels(k + 1, depth)

\* An if / else if chain with depth `else if` levels, an optional final else,
\* its one `end`, and a statement after it
ChainSource(depth, has_else) ==
    <<Chars("if c"), Chars("  x <- 1")>> \o ChainLevels(1, depth)
        \o (IF has_else THEN <<Chars("else"), Chars("  x <- 0")>> ELSE <<>>)
        \o <<Chars("end"), Chars("z <- 0")>>

ChainShapes == [depth : 0..MaxChain, has_else : BOOLEAN]

\* The elements of a generated bracket group: two integer literals, a variable,
\* a float literal and a boolean literal
BracketElements == {"0", "7", "x", "1.5", "true"}

\* Bracket groups of one or two elements
BracketGroups ==
    {<<e>> : e \in BracketElements} \cup {<<e1, e2>> : e1 \in BracketElements, e2 \in BracketElements}

GroupText(g) == Chars(g[1]) \o (IF Len(g) = 2 THEN Chars(", ") \o Chars(g[2]) ELSE <<>>)

\* The source line `y <- f(arr[...])`: the group follows a variable in a call argument
BracketCallSource(g) == <<Chars("y <- f(arr[") \o GroupText(g) \o Chars("])")>>

\* The source line `arr[...]`: the group follows the variable that opens a statement
BracketStatementSource(g) == <<Chars("arr[") \o GroupText(g) \o Chars("]")>>

\* Calls of f with plain arguments, and with an argument that is itself a call
PlainCallSources ==
    { Src(<<"y <- f()">>), Src(<<"y <- f(1)">>), Src(<<"y <- f(1, 2)">>),
      Src(<<"y <- f(x, 1 + 2, 3)">>) }

NestedCallSources ==
    { Src(<<"y <- f(g(1), 2)">>), Src(<<"y <- f(1, g(2))">>), Src(<<"y <- f(g(1))">>) }

\* A line that holds only the keyword return, at top level and in a function body
BareReturnSources ==
    { Src(<<"return">>), Src(<<"function f()", "  return", "end">>) }

\* return followed by an expression
ValuedReturnSources == { Src(<<"return 1">>), Src(<<"return x + 1">>) }

\* A function whose parameter has no type annotation
UntypedParameterSource == Src(<<"function f(x)", "  y <- 1", "end">>)

\* The same function with the parameter annotated
TypedParameterSource == Src(<<"function f(x: int)", "  y <- 1", "end">>)

\* An `if ... end` statement in an else branch, after another statement and
\* before one
LaterIfSource ==
    Src(<<"if a", "  x <- 1", "else", "  y <- 2", "  if b", "    z <- 3", "  end",
          "  w <- 4", "end">>)

\* The same statement in the branch of the `if`
NestedIfSource ==
    Src(<<"if a", "  y <- 2", "  if b", "    z <- 3", "  end", "  w <- 4", "end">>)

\* The comparison operators with the tags of their nodes
ComparisonOperators ==
    { <<"==", "EqualTo">>, <<"!=", "NotEqualTo">>, <<"<", "LowerThan">>,
      <<">", "GreaterThan">>, <<"<=", "LowerOrEqual">>, <<">=", "GreaterOrEqual">> }

\* x <- a op b
AssignedComparisonSource(op) == <<Chars("x <- a ") \o Chars(op) \o Chars(" b")>>

ParserSources ==
    {<<ExpressionLine(d)>> : d \in ExpressionShapes}
        \cup PlainCallSources \cup NestedCallSources
        \cup BareReturnSources \cup ValuedReturnSources
        \cup {UntypedParameterSource, TypedParameterSource}
        \cup {LaterIfSource, NestedIfSource}
        \cup {AssignedComparisonSource(c[1]) : c \in ComparisonOperators}
        \cup {ChainSource(c.depth, c.has_else) : c \in ChainShapes}
        \cup {BracketCallSource(g) : g \in BracketGroups}
        \cup {BracketStatementSource(g) : g \in BracketGroups}

\* The parser entered with the tokens of a source: the state LexFinish leaves
InitParser ==
    /\ overflow_checks \in BOOLEAN
    /\ lines \in ParserSources
    /\ line_index = Len(lines) + 1
    /\ char_index = 1
    /\ context = "None"
    /\ current_token = <<>>
    /\ tokens = tokenize(lines, overflow_checks).val
    /\ token_pos = 1
    /\ children = <<>>
    /\ child_index = 1
    /\ ctx = main_walk
    /\ phase = "parse"
    /\ outcome = Running

NextParser ==
    \/ ParseStatement
    \/ ParseFinish

SpecParser == InitParser /\ [][NextParser]_vars

(***************************************************************************)
(* Inputs of the lexer followed by the parser (main: tokenize, load_ast)   *)
(***************************************************************************)
FrontEndSources ==
    {<<l>> : l \in LexerLines} \cup {<<w>> : w \in WhitespaceLines}
        \cup OperatorSources \cup ClosingBracketSources \cup ParserSources \cup Programs

InitFrontEnd ==
    /\ overflow_checks \in BOOLEAN
    /\ lines \in FrontEndSources
    /\ line_index = 1
    /\ char_index = 1
    /\ context = "None"
    /\ current_token = <<>>
    /\ tokens = <<>>
    /\ token_pos = 1
    /\ children = <<>>
    /\ child_index = 1
    /\ ctx = main_walk
    /\ phase = "lex"
    /\ outcome = Running

NextFrontEnd ==
    \/ LexChar
    \/ LexEndOfLine
    \/ LexFinish
    \/ ParseStatement
    \/ ParseFinish

SpecFrontEnd == InitFrontEnd /\ [][NextFrontEnd]_vars

(***************************************************************************)
(* Inputs of the analyzer: statement lists                                 *)
(***************************************************************************)
\* The largest number of global statements handed to the analyzer
MaxStatements == 3

IntParameter == Variable(Chars("x"), <<ParserType(Chars("int"), FALSE)>>)

FloatParameter == Variable(Chars("x"), <<ParserType(Chars("float"), FALSE)>>)

UntypedVariable(name) == VariableAst(Variable(Chars(name), <<>>))

\* declare function g(x: int): int
HeaderG == FunctionHeader(Chars("g"), <<IntParameter>>, <<Chars("int")>>)

\* function g(x: int): int / end
FullGInt == FunctionDeclarationAst(Chars("g"), <<>>, <<IntParameter>>, <<Chars("int")>>)

\* function g(x: int): float / end
FullGFloat == FunctionDeclarationAst(Chars("g"), <<>>, <<IntParameter>>, <<Chars("float")>>)

\* function f(x: int) / end
FullFInt == FunctionDeclarationAst(Chars("f"), <<>>, <<IntParameter>>, <<>>)

\* function f(x: float) / end
FullFFloat == FunctionDeclarationAst(Chars("f"), <<>>, <<FloatParameter>>, <<>>)

\* f(1)
CallFInt == FunctionCall(Chars("f"), <<IntAst(I64(1))>>)

\* f(1.0)
CallFFloat == FunctionCall(Chars("f"), <<FloatAst(1, 0)>>)

\* x <- 1
AssignXInt == Assignement(UntypedVariable("x"), IntAst(I64(1)))

\* x <- 2.5
AssignXFloat == Assignement(UntypedVariable("x"), FloatAst(25, 1))

\* y <- x
AssignYFromX == Assignement(UntypedVariable("y"), UntypedVariable("x"))

StatementPool ==
    {HeaderG, FullGInt, FullGFloat, FullFInt, FullFFloat, CallFInt, CallFFloat,
     AssignXInt, AssignXFloat, AssignYFromX}

\* One literal of each built-in type, with its type
TypedOperands ==
    { [tree |-> IntAst(I64(1)), type |-> int_type],
      [tree |-> FloatAst(15, 1), type |-> float_type],
      [tree |-> BoolAst(1), type |-> bool_type],
      [tree |-> StrAst(Chars("s")), type |-> string_type],
      [tree |-> ArrayValue(<<IntAst(I64(1))>>), type |-> array_type] }

\* r <- left op right
AssignOperation(tag, left, right) ==
    Assignement(UntypedVariable("r"), BinaryAst(tag, left, right))

\* The assignments of one arithmetic or comparison node over two literals
OperationStatements ==
    { AssignOperation(tag, l.tree, r.tree) :
          tag \in ArithmeticTags \cup ComparisonTags, l \in TypedOperands, r \in TypedOperands }

\* build_compiler_context entered with a statement list
InitAnalyzer ==
    /\ overflow_checks \in BOOLEAN
    /\ lines = <<>>
    /\ line_index = 1
    /\ char_index = 1
    /\ context = "None"
    /\ current_token = <<>>
    /\ tokens = <<>>
    /\ token_pos = 1
    /\ children \in SeqsUpTo(StatementPool, MaxStatements)
                      \cup {<<s>> : s \in OperationStatements}
    /\ child_index = 1
    /\ ctx = main_walk
    /\ phase = "analyze"
    /\ outcome = Running

NextAnalyzer ==
    \/ FlattenStatement
    \/ FlattenFinish

SpecAnalyzer == InitAnalyzer /\ [][NextAnalyzer]_vars

(***************************************************************************)
(* Properties of the whole pipeline (Spec)                                 *)
(***************************************************************************)
Contains(s, part) ==
    \E i \in 1..(Len(s) - Len(part) + 1) : SubSeq(s, i, i + Len(part) - 1) = part

\* C1: the analysis of `function f(x: int) / y <- x + 1 / end` succeeds, and the
\* flattened function has the local y of type int: the parameter x resolves to
\* its declared type inside the body.
C1_ParameterResolvesToDeclaredType ==
    (lines = ParameterProgram /\ phase = "done") =>
        /\ outcome.status = "ok"
        /\ \E i \in 1..Len(ctx.children_functions) :
               TypedVariable(Chars("y"), int_type)
                   \in Range(ctx.children_functions[i].variables)

\* C2: the pipeline run on a program with the line `declare function g(x:int): int`
\* and no body for g succeeds, and the extern list holds the signature g(int).
C2_HeaderReportedExtern ==
    (lines \in DeclarePrograms /\ phase = "done") =>
        /\ outcome.status = "ok"
        /\ \E d \in ctx.extern_symbols : to_string(d) = Chars("g(int)")

\* C4: no two entries of the flattened function list carry the same mangled name.
\* (Two entries of a successful analysis always stem from declarations that
\* differ in name, parameter types or enclosing chain: a second declaration of a
\* signature in one scope is a redeclaration error.)
C4_DistinctMangledNames ==
    (phase = "done" /\ outcome.status = "ok") =>
        \A i, j \in 1..Len(ctx.children_functions) :
            i # j => ctx.children_functions[i].name # ctx.children_functions[j].name

\* C6: for g declared inside f, g is an entry of the flattened list placed before
\* f's entry, its mangled name contains f's name, and every call to g in f's body
\* after the declaration, as a statement or inside an assigned expression, is
\* kept under that mangled name.
C6_NestedCallsRewritten ==
    (lines = NestedCallProgram /\ phase = "done") =>
        /\ outcome.status = "ok"
        /\ Len(ctx.children_functions) = 2
        /\ LET g == ctx.children_functions[1]
               f == ctx.children_functions[2]
           IN  /\ Contains(g.name, Chars("g"))
               /\ Contains(g.name, Chars("f"))
               /\ Contains(f.name, Chars("f"))
               /\ Len(f.statements) = 2
               /\ \A s \in Range(f.statements) :
                      /\ s.tag = "FunctionCall" => s.name = g.name
                      /\ (s.tag = "Assignement" /\ s.expression.tag = "FunctionCall")
                             => s.expression.name = g.name

\* C9: the source line `-3 + 4`, tokenized and parsed, is Addition(UnaryMinus(3), 4).
C9_LeadingMinusIsUnary ==
    (lines = LeadingMinusProgram /\ phase \in {"analyze", "done"}) =>
        children = <<BinaryAst("Addition", UnaryAst("UnaryMinus", IntAst(I64(3))), IntAst(I64(4)))>>

C9_Parsed ==
    /\ lines = LeadingMinusProgram
    /\ phase = "analyze"
    /\ Len(children) = 1
    /\ children[1].tag = "Addition"
    /\ children[1].left.tag = "UnaryMinus"

\* C15: the analysis of a program the parser accepts ends with the analyzer's
\* result or with an error description, and in no other way.
C15_AnalysisReturnsResultOrError ==
    (phase = "done" /\ outcome.stage = "analyzer") => outcome.status \in {"ok", "err"}

\* C17: the assignment `x: int <- 1.5`, whose variable is annotated int and whose
\* expression is a float, is rejected by the analyzer with an error.
C17_AnnotationIsChecked ==
    (lines = AnnotatedProgram /\ phase = "done") =>
        (outcome.stage = "analyzer" /\ outcome.status = "err")

\* C21: the analysis of `function f(): int / return 1.5 / end`, whose return
\* value is a float in a function declared to return int, ends with an error
\* of the analyzer.
C21_ReturnTypeIsChecked ==
    (lines = ReturnMismatchProgram /\ phase = "done") =>
        (outcome.stage = "analyzer" /\ outcome.status = "err")

\* The mangled name of f(x: T) declared in the scope named scope_name
MangledF(scope_name, typeval) ==
    build_function_name(scope_name, FunctionDeclaration(Chars("f"), <<typeval>>, <<typeval>>, TRUE))

\* C22: for each of the names int, float, bool, string and array written as the
\* parameter and return type of f, at top level and inside another function,
\* the analysis succeeds and f is registered with the built-in type of that
\* name as its parameter type.
C22_BuiltinTypeNamesResolve ==
    \A b \in BuiltinTypeNames :
        /\ (lines = AnnotationProgram(b[1]) /\ phase = "done") =>
               /\ outcome.status = "ok"
               /\ \E i \in 1..Len(ctx.children_functions) :
                      ctx.children_functions[i].name = MangledF(<<>>, b[2])
        /\ (lines = NestedAnnotationProgram(b[1]) /\ phase = "done") =>
               /\ outcome.status = "ok"
               /\ \E i \in 1..Len(ctx.children_functions) :
                      ctx.children_functions[i].name
                          = MangledF(sub_scope_name(<<>>, Chars("g")), b[2])

(***************************************************************************)
(* Properties of the lexer (SpecLexer)                                     *)
(***************************************************************************)
\* tokenize has returned: Ok(tokens) ("parse") or an error or a panic ("done")
Tokenized == phase \in {"parse", "done"}

\* A natural number of any size as its 16-bit limbs, least significant first and
\* without leading zero limbs: limbs * 10 + carry
RECURSIVE TimesTenPlus(_, _)
TimesTenPlus(limbs, carry) ==
    IF limbs = <<>> THEN (IF carry = 0 THEN <<>> ELSE <<carry>>)
    ELSE <<(limbs[1] * 10 + carry) % 65536>>
             \o TimesTenPlus(Tail(limbs), (limbs[1] * 10 + carry) \div 65536)

\* The base-10 value of a digit string
RECURSIVE DecimalValue(_)
DecimalValue(cs) ==
    IF cs = <<>> THEN <<>> ELSE TimesTenPlus(DecimalValue(Front(cs)), to_digit(Last(cs)))

RECURSIVE WithoutLeadingZeros(_)
WithoutLeadingZeros(limbs) ==
    IF limbs # <<>> /\ Last(limbs) = 0 THEN WithoutLeadingZeros(Front(limbs)) ELSE limbs

\* The i64 v is the natural number n
IsValue(v, n) == v[4] < 32768 /\ WithoutLeadingZeros(v) = n

\* C12: for every non-empty string n of decimal digits, tokenizing the single line
\* n succeeds with exactly the two tokens Int(v), EndLine, v being the base-10
\* value of n.
C12_IntegerLiteralTokens ==
    \A n \in IntegerLiterals :
        (lines = <<n>> /\ Tokenized) =>
            /\ outcome = Running
            /\ Len(tokens) = 2
            /\ tokens[1].type = "Int"
            /\ IsValue(tokens[1].int, DecimalValue(n))
            /\ tokens[2] = EndLine

\* C13: a line of whitespace characters only, or of no character, is tokenized
\* without error and contributes exactly one token, EndLine: alone it gives
\* [EndLine], and after the line `a <- 1` it adds one EndLine to that line's tokens.
C13_BlankLineIsEndLine ==
    \A w \in WhitespaceLines :
        /\ (lines = <<w>> /\ Tokenized) => (outcome = Running /\ tokens = <<EndLine>>)
        /\ (lines = <<Chars("a <- 1"), w>> /\ Tokenized) =>
               /\ outcome = Running
               /\ tokens = <<Tok("Variable", Chars("a")), Tok("BinaryOperator", Chars("<-")),
                             IntTok(I64(1)), EndLine, EndLine>>

\* The positions of the EndLine tokens of a token list
EndLines(toks) == {i \in 1..Len(toks) : toks[i].type = "EndLine"}

\* The tokens up to the last EndLine: those of the lines already closed
ClosedLines(toks) ==
    SubSeq(toks, 1, IF EndLines(toks) = {} THEN 0
                    ELSE CHOOSE i \in EndLines(toks) : \A j \in EndLines(toks) : j <= i)

\* A step of tokenize keeps the tokens of the closed lines as they are; inside a
\* line it adds no EndLine; at the end of line i it leaves the i-th EndLine as the
\* last token, with no character pending for the next line; and when tokenize
\* returns, the EndLine tokens are as many as the lines.
LinesStayApart ==
    phase = "lex" =>
        /\ Cardinality(EndLines(tokens)) = line_index - 1
        /\ Len(tokens') >= Len(ClosedLines(tokens))
        /\ SubSeq(tokens', 1, Len(ClosedLines(tokens))) = ClosedLines(tokens)
        /\ line_index' = line_index =>
               Cardinality(EndLines(tokens')) = Cardinality(EndLines(tokens))
        /\ line_index' # line_index =>
               /\ line_index' = line_index + 1
               /\ Cardinality(EndLines(tokens')) = line_index
               /\ Last(tokens') = EndLine
               /\ current_token' = <<>>
               /\ context' = "None"
        /\ phase' = "parse" =>
               /\ Cardinality(EndLines(tokens')) = Len(lines)
               /\ tokens' = ClosedLines(tokens')

\* C14: when tokenize succeeds on k lines its output has exactly k EndLine tokens,
\* the i-th of them directly after the tokens made from line i, and EndLine is the
\* last token; no token is made from characters of two lines.
C14_EveryLineEndsWithEndLine == [][LinesStayApart]_vars

\* `a` then `(`: the parenthesis of the second line finds EndLine before it and
\* leaves the variable of the first line a variable
C14_TwoLines ==
    /\ lines = <<<<"a">>, <<"(">>>>
    /\ phase = "parse"
    /\ tokens = <<Tok("Variable", <<"a">>), EndLine, Tok("OpeningParenthesis", <<>>), EndLine>>

\* The line opens a quoted value that it does not close: its quote characters,
\* which open and close in turn, are odd in number
UnterminatedQuote(line) ==
    Cardinality({i \in 1..Len(line) : line[i] = "\""}) % 2 = 1

\* C18: a line in which a quote opens a value and no closing quote follows makes
\* tokenize return an error, and no String token is made of the open value.
C18_UnterminatedQuoteIsError ==
    (Len(lines) = 1 /\ lines[1] \in LexerLines /\ UnterminatedQuote(lines[1]) /\ Tokenized) =>
        /\ outcome.status = "err"
        /\ \A i \in 1..Len(tokens) : tokens[i].type # "String"

\* The separator sep is pending: the next step of tokenize closes it
SeparatorPending(sep) ==
    phase = "lex" /\ context = "Separator" /\ current_token = Chars(sep)

\* The last token emitted is a Variable that the keyword function does not precede
CalledVariable(toks) ==
    /\ toks # <<>>
    /\ Last(toks).type = "Variable"
    /\ ~(Len(toks) >= 2 /\ toks[Len(toks) - 1] = Tok("Keyword", Chars("function")))

\* The step that tokenizes `(` after a called variable puts a FunctionCall token
\* of the same name in the place of the Variable and OpeningParenthesis after it
CallParenthesis ==
    (SeparatorPending("(") /\ CalledVariable(tokens)) =>
        /\ outcome' = Running
        /\ Len(tokens') >= Len(tokens) + 1
        /\ SubSeq(tokens', 1, Len(tokens) + 1)
               = Front(tokens) \o <<Tok("FunctionCall", Last(tokens).text),
                                    Tok("OpeningParenthesis", <<>>)>>

\* C23: when `(` is tokenized after a Variable that is not preceded by the
\* keyword function, the Variable is replaced in place by a FunctionCall of the
\* same name and OpeningParenthesis follows, wherever the Variable sits in the
\* token list, the first position included.
C23_VariableBecomesFunctionCall == [][CallParenthesis]_vars

\* The two last tokens emitted are a TypeDef and an OpeningBracket
ArrayTypePrefix(toks) ==
    /\ Len(toks) >= 2
    /\ toks[Len(toks) - 1].type = "TypeDef"
    /\ Last(toks).type = "OpeningBracket"

\* The step that tokenizes `]` produces one token: ArrayTypeDef in the place of
\* TypeDef and OpeningBracket, and ClosingBracket after the tokens emitted otherwise
ClosingBracketToken ==
    SeparatorPending("]") =>
        /\ outcome' = Running
        /\ IF ArrayTypePrefix(tokens)
           THEN /\ Len(tokens') >= Len(tokens) - 1
                /\ SubSeq(tokens', 1, Len(tokens) - 1)
                       = Append(Front(Front(tokens)),
                                Tok("ArrayTypeDef", tokens[Len(tokens) - 1].text))
           ELSE /\ Len(tokens') >= Len(tokens) + 1
                /\ SubSeq(tokens', 1, Len(tokens) + 1)
                       = Append(tokens, Tok("ClosingBracket", <<>>))

\* C24: every `]` outside a quoted value produces exactly one token, an
\* ArrayTypeDef replacing a preceding TypeDef and OpeningBracket and a
\* ClosingBracket otherwise, however many tokens were emitted before it.
C24_ClosingBracketIsOneToken == [][ClosingBracketToken]_vars

\* The registered operators
RegisteredOperators == Range(BINARY_OPERATORS) \cup Range(UNARY_OPERATORS)

\* The length of the longest registered operator that starts the run (0 when none)
LongestOperator(run) ==
    LET found == {n \in 1..Len(run) : SubSeq(run, 1, n) \in RegisteredOperators}
    IN  IF found = {} THEN 0 ELSE CHOOSE n \in found : \A m \in found : m <= n

\* The token of the operator op after a token of type before ("none" when no
\* token has been emitted)
OperatorToken(op, before) ==
    IF /\ op \in Range(UNARY_OPERATORS)
       /\ before \in {"BinaryOperator", "UnaryOperator", "Keyword", "Comma", "none"}
    THEN Tok("UnaryOperator", op)
    ELSE Tok("BinaryOperator", op)

\* The decomposition of a run from left to right by longest match: its tokens,
\* and whether the whole run was consumed
RECURSIVE Decomposition(_, _)
Decomposition(run, before) ==
    IF run = <<>> THEN [consumed |-> TRUE, tokens |-> <<>>]
    ELSE IF LongestOperator(run) = 0 THEN [consumed |-> FALSE, tokens |-> <<>>]
    ELSE LET op   == SubSeq(run, 1, LongestOperator(run))
             tok  == OperatorToken(op, before)
             rest == Decomposition(SubSeq(run, Len(op) + 1, Len(run)), tok.type)
         IN  [consumed |-> rest.consumed, tokens |-> <<tok>> \o rest.tokens]

\* The step that closes a run of operator characters emits the decomposition
\* of the run, or fails when the run has none
RunDecomposed ==
    (phase = "lex" /\ context = "Operator" /\ (context' = "None" \/ phase' = "done")) =>
        LET d == Decomposition(current_token,
                               IF tokens = <<>> THEN "none" ELSE Last(tokens).type)
        IN  IF ~d.consumed
            THEN phase' = "done" /\ outcome'.status = "err"
            ELSE /\ outcome' = Running
                 /\ Len(tokens') >= Len(tokens) + Len(d.tokens)
                 /\ SubSeq(tokens', 1, Len(tokens) + Len(d.tokens)) = tokens \o d.tokens

\* C26: a run of operator characters is decomposed from left to right by longest
\* match against the registered operators, and tokenize fails unless the whole
\* run is consumed; `+` and `-` become UnaryOperator exactly after a
\* BinaryOperator, a UnaryOperator, a Keyword, a Comma or when no token has been
\* emitted, and BinaryOperator otherwise.
C26_OperatorRunDecomposition == [][RunDecomposed]_vars

\* tokenize of the lines from first to last, on their own
TokensOf(first, last) == tokenize(SubSeq(lines, first, last), overflow_checks)

\* C29: for lines A and lines B that each tokenize on their own, the tokens of
\* A followed by B are the tokens of A followed by the tokens of B: the tokens
\* of a line (of `-3 + 4`, say) are the same whatever lines precede it.
C29_TokenizationIsLineLocal ==
    \A k \in 1..(Len(lines) - 1) :
        (/\ Tokenized
         /\ TokensOf(1, k).status = "ok"
         /\ TokensOf(k + 1, Len(lines)).status = "ok") =>
            /\ outcome = Running
            /\ tokens = TokensOf(1, k).val \o TokensOf(k + 1, Len(lines)).val

(***************************************************************************)
(* Properties of the lexer followed by the parser (SpecFrontEnd)           *)
(***************************************************************************)
\* The iteration of the per-character loop that is due consumes the character,
\* or closes the pending token and leaves the context None, or ends tokenize
CharacterLoopAdvances ==
    (phase = "lex" /\ line_index <= Len(lines) /\ char_index <= Len(lines[line_index])) =>
        With(lex_iteration(lines[line_index][char_index], context, current_token, tokens,
                           overflow_checks),
             LAMBDA r : \/ r.status # "ok"
                        \/ r.val.next_char
                        \/ context # "None" /\ r.val.context = "None" /\ r.val.current_token = <<>>)

\* The iterations the loop of lex_operators makes on a run of n characters are
\* at most n + (n - 1) + ... + 1: an iteration consumes a part of the run or
\* shortens the candidate
OperatorLoopBounded ==
    (phase = "lex" /\ context = "Operator") =>
        lex_operators_loop(current_token, 0, Len(current_token),
                           IF tokens = <<>> THEN <<>> ELSE <<Last(tokens)>>).iterations
            <= (Len(current_token) * (Len(current_token) + 1)) \div 2

\* The call of build_ast that is due in load_ast consumes at least one token or
\* is an error
DispatchAdvances ==
    (phase = "parse" /\ token_pos <= Len(tokens)) =>
        With(build_ast(tokens, token_pos),
             LAMBDA r : r.status \in {"err", "panic"} \/ r.pos > token_pos)

\* What is left to do: the lines not yet closed; the characters of the line not
\* yet consumed and the pending context to close; the returns of tokenize and
\* load_ast; the tokens not yet consumed
Remaining ==
    << IF phase = "lex" THEN Len(lines) + 1 - line_index ELSE 0,
       IF phase = "lex" /\ line_index <= Len(lines)
       THEN 2 * (Len(lines[line_index]) + 1 - char_index) + (IF context = "None" THEN 0 ELSE 1)
       ELSE 0,
       CASE phase = "lex" -> 2 [] phase = "parse" -> 1 [] OTHER -> 0,
       IF phase = "parse" THEN Len(tokens) + 1 - token_pos ELSE 0 >>

\* The lexicographic order of what is left to do
RECURSIVE Less(_, _)
Less(a, b) ==
    /\ a # <<>>
    /\ \/ Head(a) < Head(b)
       \/ Head(a) = Head(b) /\ Less(Tail(a), Tail(b))

\* A step of tokenize or load_ast leaves less to do
RemainingShrinks == Less(Remaining', Remaining)

\* C28: tokenize and load_ast terminate on every input: each iteration of the
\* per-character loop consumes a character or closes the pending token, the
\* operator loop makes boundedly many iterations on a run, each call of the
\* statement dispatch consumes a token or returns an error, and every step
\* leaves less to do of a finite amount.
C28_FrontEndTerminates ==
    /\ [](CharacterLoopAdvances /\ OperatorLoopBounded /\ DispatchAdvances)
    /\ [][RemainingShrinks]_vars

C28_Returned ==
    /\ phase = "analyze"
    /\ lines = ChainSource(2, TRUE)
    /\ token_pos = Len(tokens) + 1
    /\ Len(children) = 2

(***************************************************************************)
(* Properties of the parser (SpecParser)                                   *)
(***************************************************************************)
\* The precedences the specification states for the arithmetic operators
StatedPrecedence(op) ==
    CASE op \in {"+", "-"} -> 1
      [] op = "%" -> 2
      [] op \in {"*", "/"} -> 3

StatedNode(op) ==
    CASE op = "+" -> "Addition"
      [] op = "-" -> "Substraction"
      [] op = "*" -> "Multiplication"
      [] op = "/" -> "Division"
      [] op = "%" -> "Modulo"

OperandTree(d, i) == IF d.neg[i] THEN UnaryAst("UnaryMinus", IntAst(I64(i))) ELSE IntAst(I64(i))

\* The operator applied last among those between the operands lo..hi: one of the
\* lowest precedence, and the rightmost of these (equal precedences group to the left)
SplitAt(d, lo, hi) ==
    CHOOSE s \in lo..(hi - 1) :
        \A t \in lo..(hi - 1) :
            \/ StatedPrecedence(d.ops[s]) < StatedPrecedence(d.ops[t])
            \/ StatedPrecedence(d.ops[s]) = StatedPrecedence(d.ops[t]) /\ t <= s

RECURSIVE ReferenceTree(_, _, _)
ReferenceTree(d, lo, hi) ==
    IF lo = hi THEN OperandTree(d, lo)
    ELSE LET s == SplitAt(d, lo, hi)
         IN  BinaryAst(StatedNode(d.ops[s]), ReferenceTree(d, lo, s), ReferenceTree(d, s + 1, hi))

ExpressionCases ==
    { [source |-> <<ExpressionLine(d)>>,
       tree   |-> Assignement(UntypedVariable("a"), ReferenceTree(d, 1, Len(d.ops) + 1))]
      : d \in ExpressionShapes }

ParsedAll == phase \in {"analyze", "done"}

\* C8: `a <- 1 + 2 * 3` parses to Assignment(a, Addition(1, Multiplication(2, 3))),
\* and every generated `a <- o1 op1 o2 ...` parses to the tree in which the assignment
\* is applied last, a unary minus stays on its operand, an operator of higher stated
\* precedence binds tighter and equal precedences group to the left.
C8_PrecedenceAndAssociativity ==
    /\ (lines = Src(<<"a <- 1 + 2 * 3">>) /\ ParsedAll) =>
           children = <<Assignement(UntypedVariable("a"),
                                    BinaryAst("Addition", IntAst(I64(1)),
                                              BinaryAst("Multiplication", IntAst(I64(2)), IntAst(I64(3)))))>>
    /\ \A e \in ExpressionCases :
           (lines = e.source /\ ParsedAll) => (outcome = Running /\ children = <<e.tree>>)

C8_Parsed ==
    /\ lines = Src(<<"a <- 1 + 2 * 3">>)
    /\ phase = "analyze"
    /\ Len(children) = 1
    /\ children[1].expression.right.tag = "Multiplication"

AssignX(k) == Assignement(UntypedVariable("x"), IntAst(I64(k)))

\* The conditional of level k of a chain (level 0 is the `if` itself)
RECURSIVE ExpectedChain(_, _, _)
ExpectedChain(k, depth, has_else) ==
    Condition(UntypedVariable("c"), <<AssignX(k + 1)>>,
              IF k < depth THEN <<ExpectedChain(k + 1, depth, has_else)>>
              ELSE IF has_else THEN <<AssignX(0)>> ELSE <<>>)

\* C10: an if / else if chain of any generated depth parses without error to one
\* Condition whose invalid_branch is, level by level, exactly one nested Condition;
\* the chain takes exactly one `end`, so the statement after it is the next
\* global statement.
C10_ElseIfChainIsOneCondition ==
    \A c \in ChainShapes :
        (lines = ChainSource(c.depth, c.has_else) /\ ParsedAll) =>
            /\ outcome = Running
            /\ children = <<ExpectedChain(0, c.depth, c.has_else),
                            Assignement(UntypedVariable("z"), IntAst(I64(0)))>>

C10_Parsed ==
    /\ lines = ChainSource(2, TRUE)
    /\ phase = "analyze"
    /\ Len(children) = 2
    /\ children[1].invalid_branch[1].invalid_branch[1].tag = "Condition"

\* The node of an element of a generated bracket group
ElementTree(e) ==
    CASE e = "0" -> IntAst(I64(0))
      [] e = "7" -> IntAst(I64(7))
      [] e = "x" -> UntypedVariable("x")
      [] e = "1.5" -> FloatAst(15, 1)
      [] e = "true" -> BoolAst(1)

\* The group has one element and that element is an integer literal
IsIndex(g) == Len(g) = 1 /\ g[1] \in {"0", "7"}

\* What the variable arr and the group after it leave on the output stack
VariableAndGroup(g) ==
    IF IsIndex(g) THEN <<ArrayAccess(Chars("arr"), ElementTree(g[1]).int)>>
    ELSE <<UntypedVariable("arr"), ArrayValue([i \in 1..Len(g) |-> ElementTree(g[i])])>>

\* C11: a bracket group after an untyped bare variable becomes one ArrayAccess node
\* (variable name, integer offset) exactly when it has one element and the element
\* is an integer literal; otherwise it is an ArrayValue node left on the output
\* stack after the variable.  In a call argument list the stack entries are the
\* call's arguments; as a statement of its own one entry is the statement and two
\* entries are the error "invalid expression".
C11_BracketGroupAfterVariable ==
    \A g \in BracketGroups :
        /\ (lines = BracketCallSource(g) /\ ParsedAll) =>
               /\ outcome = Running
               /\ children = <<Assignement(UntypedVariable("y"),
                                           FunctionCall(Chars("f"), VariableAndGroup(g)))>>
        /\ (lines = BracketStatementSource(g) /\ ParsedAll) =>
               IF IsIndex(g) THEN outcome = Running /\ children = VariableAndGroup(g)
               ELSE outcome.status = "err" /\ children = <<>>

C11_Indexed ==
    /\ lines = BracketCallSource(<<"7">>)
    /\ phase = "analyze"
    /\ Len(children) = 1
    /\ children[1].expression.children = <<ArrayAccess(Chars("arr"), I64(7))>>

\* y <- f(arguments)
AssignCallOfF(arguments) ==
    Assignement(UntypedVariable("y"), FunctionCall(Chars("f"), arguments))

CallOfG(n) == FunctionCall(Chars("g"), <<IntAst(I64(n))>>)

\* Call sources and the argument lists they write, left to right
CallCases ==
    { [source |-> Src(<<"y <- f()">>), arguments |-> <<>>],
      [source |-> Src(<<"y <- f(1)">>), arguments |-> <<IntAst(I64(1))>>],
      [source |-> Src(<<"y <- f(1, 2)">>), arguments |-> <<IntAst(I64(1)), IntAst(I64(2))>>],
      [source |-> Src(<<"y <- f(x, 1 + 2, 3)">>),
       arguments |-> <<UntypedVariable("x"),
                       BinaryAst("Addition", IntAst(I64(1)), IntAst(I64(2))),
                       IntAst(I64(3))>>],
      [source |-> Src(<<"y <- f(g(1), 2)">>), arguments |-> <<CallOfG(1), IntAst(I64(2))>>],
      [source |-> Src(<<"y <- f(1, g(2))">>), arguments |-> <<IntAst(I64(1)), CallOfG(2)>>],
      [source |-> Src(<<"y <- f(g(1))">>), arguments |-> <<CallOfG(1)>>] }

\* C16: the FunctionCall node built at a call's closing parenthesis carries exactly
\* the call's argument expressions in source order, for every argument list,
\* those with a call as argument included: `f(g(1), 2)` is f with [g(1), 2].
C16_ArgumentsInSourceOrder ==
    \A c \in CallCases :
        (lines = c.source /\ ParsedAll) =>
            (outcome = Running /\ children = <<AssignCallOfF(c.arguments)>>)

\* C19: the tokens Keyword(return), EndLine of a line that holds only `return`
\* parse to ReturnStatement(None), at top level and as a statement of a function
\* body; `return` followed by an expression parses to
\* ReturnStatement(Some(expression)).
C19_ReturnWithAndWithoutValue ==
    /\ (lines = Src(<<"return">>) /\ ParsedAll) =>
           (outcome = Running /\ children = <<ReturnStatement(<<>>)>>)
    /\ (lines = Src(<<"function f()", "  return", "end">>) /\ ParsedAll) =>
           /\ outcome = Running
           /\ children = <<FunctionDeclarationAst(Chars("f"), <<ReturnStatement(<<>>)>>, <<>>, <<>>)>>
    /\ (lines = Src(<<"return 1">>) /\ ParsedAll) =>
           (outcome = Running /\ children = <<ReturnStatement(<<IntAst(I64(1))>>)>>)
    /\ (lines = Src(<<"return x + 1">>) /\ ParsedAll) =>
           /\ outcome = Running
           /\ children = <<ReturnStatement(<<BinaryAst("Addition", UntypedVariable("x"),
                                                       IntAst(I64(1)))>>)>>

\* function f(parameter) / y <- 1 / end
FunctionOfOneParameter(parameter) ==
    FunctionDeclarationAst(Chars("f"),
                           <<Assignement(UntypedVariable("y"), IntAst(I64(1)))>>,
                           <<parameter>>, <<>>)

\* C20: `function f(x)`, a body and `end` parse to a FunctionDeclaration whose
\* parameter x has no declared type.
C20_UntypedParameterAccepted ==
    (lines = UntypedParameterSource /\ ParsedAll) =>
        /\ outcome = Running
        /\ children = <<FunctionOfOneParameter(Variable(Chars("x"), <<>>))>>

AssignInt(name, k) == Assignement(UntypedVariable(name), IntAst(I64(k)))

\* y <- 2 / if b / z <- 3 / end / w <- 4
BranchWithIf ==
    << AssignInt("y", 2),
       Condition(UntypedVariable("b"), <<AssignInt("z", 3)>>, <<>>),
       AssignInt("w", 4) >>

\* C25: an `if ... end` statement that comes after another statement in an else
\* branch is an ordinary nested conditional that consumes its own `end`: the
\* statement after it still belongs to the else branch and the outer `end`
\* closes the outer `if`.
C25_LaterIfInElseBranch ==
    (lines = LaterIfSource /\ ParsedAll) =>
        /\ outcome = Running
        /\ children = <<Condition(UntypedVariable("a"), <<AssignInt("x", 1)>>, BranchWithIf)>>

\* C30: for each comparison operator, `x <- a op b` parses to the assignment
\* of the comparison node over a and b to x, the comparison binding tighter
\* than the assignment.
C30_ComparisonBindsTighterThanAssignment ==
    \A c \in ComparisonOperators :
        (lines = AssignedComparisonSource(c[1]) /\ ParsedAll) =>
            /\ outcome = Running
            /\ children = <<Assignement(UntypedVariable("x"),
                                        BinaryAst(c[2], UntypedVariable("a"),
                                                  UntypedVariable("b")))>>

(***************************************************************************)
(* Properties of the analyzer (SpecAnalyzer)                               *)
(***************************************************************************)
AtStatement == phase = "analyze" /\ child_index <= Len(children)

TypeNames(types) == [i \in 1..Len(types) |-> types[i].name]

ParameterTypeNames(child) ==
    [i \in 1..Len(child.parameters) |-> child.parameters[i].typename[1].name]

OptionalTypeName(t) == IF t = <<>> THEN <<>> ELSE <<t[1].name>>

\* The header-only entries of a symbol table that declare the signature of child
HeadersOf(child, table) ==
    {e \in table : /\ ~e.key.implemented
                   /\ e.key.name = child.name
                   /\ TypeNames(e.key.parameters) = ParameterTypeNames(child)}

HeaderThenImplementation ==
    (AtStatement /\ children[child_index].tag = "FunctionDeclaration") =>
        \A e \in HeadersOf(children[child_index], ctx.scope.functions_symbol_table) :
            IF OptionalTypeName(e.key.return_type) # children[child_index].return_type
            THEN outcome'.status = "err" /\ phase' = "done"
            ELSE /\ outcome' = Running
                 /\ phase' = "analyze"
                 /\ \E n \in ctx'.scope.functions_symbol_table :
                        n.key.implemented /\ SameSignature(n.key, e.key) /\ n.value = e.value
                 /\ HeadersOf(children[child_index], ctx'.scope.functions_symbol_table) = {}

ExternExcludesImplemented ==
    (phase = "done" /\ outcome.status = "ok") =>
        \A d \in ctx.extern_symbols :
            \A i \in 1..Len(ctx.scope.functions) :
                ~(ctx.scope.functions[i].implemented /\ SameSignature(ctx.scope.functions[i], d))

\* C3: when the global scope holds a header-only declaration of a signature and the
\* next statement is a full declaration of it, a different return type ends the
\* analysis with an error; the same return type succeeds and leaves the signature
\* implemented under the mangled name the header had; and a signature that has an
\* implementation is not in the extern list of a successful analysis.
C3_HeaderThenImplementation ==
    [][HeaderThenImplementation /\ ExternExcludesImplemented']_vars

C3_Implemented ==
    /\ phase = "done"
    /\ outcome.status = "ok"
    /\ children = <<HeaderG, FullGInt>>
    /\ ctx.extern_symbols = {}
    /\ \E n \in ctx.scope.functions_symbol_table :
           n.key.implemented /\ n.value = Chars("_g(int)")

Declared(scope, name, type_name) ==
    \E i \in 1..Len(scope.functions) :
        /\ scope.functions[i].name = Chars(name)
        /\ TypeNames(scope.functions[i].parameters) = <<Chars(type_name)>>
        /\ scope.functions[i].implemented

Flattened(name) ==
    \E i \in 1..Len(ctx.children_functions) : ctx.children_functions[i].name = Chars(name)

CallEmitted(child, name) ==
    /\ outcome' = Running
    /\ Flattened(name)
    /\ ctx'.func_impl.statements =
           Append(ctx.func_impl.statements, FunctionCall(Chars(name), child.children))

OverloadsResolveByArgumentTypes ==
    AtStatement =>
        LET child == children[child_index]
            int   == Declared(ctx.scope, "f", "int")
            float == Declared(ctx.scope, "f", "float")
        IN  /\ ((child = FullFInt /\ float /\ ~int) \/ (child = FullFFloat /\ int /\ ~float))
                   => /\ outcome' = Running
                      /\ Declared(ctx'.scope, "f", "int")
                      /\ Declared(ctx'.scope, "f", "float")
            /\ (child = CallFInt /\ int /\ float) => CallEmitted(child, "_f(int)")
            /\ (child = CallFFloat /\ int /\ float) => CallEmitted(child, "_f(float)")

\* C5: a full declaration of f(x: int) and one of f(x: float) both register in the
\* global scope, in either order; with both registered the call statement f(1) is
\* emitted under the name of the flattened int overload and f(1.0) under the name of
\* the flattened float overload.
C5_OverloadsResolveByArgumentTypes == [][OverloadsResolveByArgumentTypes]_vars

C5_Resolved ==
    /\ phase = "done"
    /\ outcome.status = "ok"
    /\ children = <<FullFInt, FullFFloat, CallFFloat>>
    /\ ctx.func_impl.statements = <<FunctionCall(Chars("_f(float)"), <<FloatAst(1, 0)>>)>>

HasType(scope, name) == \E i \in 1..Len(scope.variables) : scope.variables[i].name = name

KnownType(scope, name) ==
    scope.variables[CHOOSE i \in 1..Len(scope.variables) :
                        /\ scope.variables[i].name = name
                        /\ \A j \in 1..(i - 1) : scope.variables[j].name # name].typeval

\* The type of a literal, or of a variable the scope has typed
Typed(e, scope) ==
    \/ e.tag \in {"Int", "Float"}
    \/ e.tag = "Variable" /\ HasType(scope, e.var.name)

TypeOf(e, scope) ==
    CASE e.tag = "Int" -> int_type
      [] e.tag = "Float" -> float_type
      [] e.tag = "Variable" -> KnownType(scope, e.var.name)

ReassignmentKeepsType ==
    (/\ AtStatement
     /\ children[child_index].tag = "Assignement"
     /\ Typed(children[child_index].expression, ctx.scope)
     /\ HasType(ctx.scope, children[child_index].variable.var.name)) =>
        LET child == children[child_index]
        IN  IF TypeOf(child.expression, ctx.scope) = KnownType(ctx.scope, child.variable.var.name)
            THEN /\ outcome' = Running
                 /\ ctx'.scope.variables = ctx.scope.variables
                 /\ ctx'.func_impl.variables = ctx.func_impl.variables
                 /\ ctx'.func_impl.statements = Append(ctx.func_impl.statements, child)
            ELSE /\ outcome'.status = "err"
                 /\ outcome'.msg = "mismatching type for variable"
                 /\ phase' = "done"

\* C7: an assignment to a variable the scope has typed succeeds exactly when the
\* expression has that type, and then the locals are unchanged; otherwise the
\* analysis ends with the type-mismatch error (x <- 1 followed by x <- 2.5).
C7_ReassignmentKeepsType == [][ReassignmentKeepsType]_vars

C7_Mismatch ==
    /\ phase = "done"
    /\ outcome.status = "err"
    /\ outcome.msg = "mismatching type for variable"
    /\ children = <<AssignXInt, AssignXFloat>>


\* The type of an arithmetic node over operands of types a and b: the common
\* type, float for int with float, and no type (<<>>) for any other pair
ArithmeticResult(a, b) ==
    IF a = b THEN <<a>>
    ELSE IF {a, b} = {int_type, float_type} THEN <<float_type>>
    ELSE <<>>

\* The analysis of `r <- ...` has registered r with the type typeval
Registered(typeval) ==
    /\ outcome.status = "ok"
    /\ ctx.func_impl.variables = <<TypedVariable(Chars("r"), typeval)>>

\* The analysis has ended with the mismatch error that names the types a and b
MismatchNaming(a, b) ==
    /\ outcome.status = "err"
    /\ Contains(outcome.msg, Chars("mismatching types"))
    /\ Contains(outcome.msg, Chars("'") \o a.name \o Chars("'"))
    /\ Contains(outcome.msg, Chars("'") \o b.name \o Chars("'"))

\* The analysis of the single statement `r <- left op right` over two of the
\* typed literals has ended
OperationAnalysed ==
    /\ phase = "done"
    /\ Len(children) = 1
    /\ children[1] \in OperationStatements

\* The type of one of the typed literals
OperandType(tree) == (CHOOSE o \in TypedOperands : o.tree = tree).type

\* C27: an arithmetic node over operands of types drawn from int, float, bool,
\* str and array has the common type when the two types are equal, float when
\* one is int and the other float, in either order, and is a type-mismatch
\* error naming both types for every other pair; a comparison node has type bool.
C27_ArithmeticAndComparisonTypes ==
    OperationAnalysed =>
        LET node   == children[1].expression
            left   == OperandType(node.left)
            right  == OperandType(node.right)
        IN  IF node.tag \in ComparisonTags THEN Registered(bool_type)
            ELSE IF ArithmeticResult(left, right) # <<>>
                 THEN Registered(ArithmeticResult(left, right)[1])
                 ELSE MismatchNaming(left, right)

C27_Typed ==
    /\ OperationAnalysed
    /\ children = <<AssignOperation("Addition", IntAst(I64(1)), FloatAst(15, 1))>>
    /\ Registered(float_type)

=============================================================================
